---------------------------- MODULE Spec2Model ----------------------------
(***************************************************************************)
(* Model of cnosuke/mcp-command-exec: the command executor (package        *)
(* executor), the command_exec tool handler (package mcp) and the older    *)
(* CommandExecutorServer (package server).                                 *)
(*                                                                         *)
(* Strings are sequences of one-character strings, so that tokenizing,     *)
(* prefix tests and path joining are computed character by character.      *)
(* Message texts that are never inspected are kept as one chunk, e.g.      *)
(* <<"empty command">>, and a formatted message is a chunk followed by the *)
(* characters of its argument.                                             *)
(***************************************************************************)
EXTENDS Naturals, Sequences, FiniteSets, TLC

VARIABLES
    cfg,               \* the *config.Config the object was built from
    osEnv,             \* the server process's environment (HOME, PATH)
    allowedCommands,   \* commandExecutor.allowedCommands / CommandExecutorServer.AllowedCommands
    currentWorkingDir, \* .currentWorkingDir
    allowedDirs,       \* .allowedDirs
    searchPaths,       \* .searchPaths
    pathBehavior,      \* .pathBehavior
    pc,                \* position of the one caller: "idle", "called", "returned"
    req,               \* the call in flight
    res                \* what the call returned

vars == <<cfg, osEnv, allowedCommands, currentWorkingDir, allowedDirs,
          searchPaths, pathBehavior, pc, req, res>>

-----------------------------------------------------------------------------
(* Strings *)

\* F applied to the value of v: v is evaluated once, before F's body
With(v, F(_)) == CHOOSE r \in {F(x) : x \in {v}} : TRUE

\* unicode.IsSpace, restricted to the two white-space characters used here
WhiteSpace == {" ", "\t"}

RECURSIVE FieldsFrom(_, _, _, _)
FieldsFrom(s, i, cur, acc) ==
    IF i > Len(s)
    THEN IF cur = <<>> THEN acc ELSE Append(acc, cur)
    ELSE IF s[i] \in WhiteSpace
         THEN With(IF cur = <<>> THEN acc ELSE Append(acc, cur),
                   LAMBDA flushed : FieldsFrom(s, i + 1, <<>>, flushed))
         ELSE With(Append(cur, s[i]), LAMBDA longer : FieldsFrom(s, i + 1, longer, acc))

\* strings.Fields
Fields(str) == With(str, LAMBDA s : FieldsFrom(s, 1, <<>>, <<>>))

\* strings.HasPrefix
HasPrefix(s, prefix) ==
    /\ Len(prefix) <= Len(s)
    /\ SubSeq(s, 1, Len(prefix)) = prefix

RECURSIVE JoinFrom(_, _, _)
JoinFrom(elems, sep, i) ==
    IF i > Len(elems) THEN <<>>
    ELSE IF i = Len(elems) THEN elems[i]
    ELSE elems[i] \o sep \o JoinFrom(elems, sep, i + 1)

\* strings.Join
JoinStrings(list, sep) == With(list, LAMBDA elems : JoinFrom(elems, sep, 1))

-----------------------------------------------------------------------------
(* Paths (Unix) *)

Slash == <<"/">>
Dot == <<".">>
DotDot == <<".", ".">>

\* filepath.IsAbs
IsAbs(path) == Len(path) > 0 /\ path[1] = "/"

RECURSIVE SplitFrom(_, _, _, _, _)
SplitFrom(s, sep, i, cur, acc) ==
    IF i > Len(s)
    THEN Append(acc, cur)
    ELSE IF s[i] = sep
         THEN With(Append(acc, cur), LAMBDA more : SplitFrom(s, sep, i + 1, <<>>, more))
         ELSE With(Append(cur, s[i]), LAMBDA longer : SplitFrom(s, sep, i + 1, longer, acc))

\* the path elements between separators (empty elements included)
SplitPath(path) == With(path, LAMBDA s : SplitFrom(s, "/", 1, <<>>, <<>>))

\* filepath.SplitList: the directories of a PATH-like list
SplitList(list) ==
    With(list, LAMBDA s : IF s = <<>> THEN <<>> ELSE SplitFrom(s, ":", 1, <<>>, <<>>))

\* one element of the lexical pass of filepath.Clean
CleanStep(out, el, rooted) ==
    IF el = <<>> \/ el = Dot THEN out
    ELSE IF el = DotDot
         THEN IF out # <<>> /\ out[Len(out)] # DotDot
              THEN SubSeq(out, 1, Len(out) - 1)
              ELSE IF rooted THEN out ELSE Append(out, el)
         ELSE Append(out, el)

RECURSIVE CleanElems(_, _, _, _)
CleanElems(elems, i, rooted, out) ==
    IF i > Len(elems) THEN out
    ELSE With(CleanStep(out, elems[i], rooted),
              LAMBDA next : CleanElems(elems, i + 1, rooted, next))

\* filepath.Clean
Clean(str) ==
    With(str, LAMBDA path :
        IF path = <<>> THEN Dot
        ELSE With(JoinStrings(With(SplitPath(path), LAMBDA elems :
                                  CleanElems(elems, 1, IsAbs(path), <<>>)), Slash),
                  LAMBDA body : IF IsAbs(path) THEN Slash \o body
                                ELSE IF body = <<>> THEN Dot ELSE body))

\* filepath.Join of two elements
Join(first, second) ==
    With(<<first, second>>, LAMBDA e :
        IF e[1] = <<>> /\ e[2] = <<>> THEN <<>>
        ELSE IF e[1] = <<>> THEN Clean(e[2])
        ELSE IF e[2] = <<>> THEN Clean(e[1])
        ELSE Clean(e[1] \o Slash \o e[2]))

-----------------------------------------------------------------------------
(* The file system the server runs on: a fixed tree with one symbolic link *)
(* and the server process's own working directory.                         *)

P_tmp == <<"/", "t", "m", "p">>
P_tmp_s == P_tmp \o <<"/", "s">>
P_tmp_f == P_tmp \o <<"/", "f">>
P_tmp_l == P_tmp \o <<"/", "l">>
P_tmp2 == P_tmp \o <<"2">>
P_h == <<"/", "h">>
P_h_s == P_h \o <<"/", "s">>
P_o == <<"/", "o">>
P_p == <<"/", "p">>
P_p_s == P_p \o <<"/", "s">>
P_bin == <<"/", "b">>
P_sp == <<"/", "u">>
P_missing == <<"/", "n">>

T_ls == <<"l", "s">>
T_lsof == <<"l", "s", "o", "f">>
T_lsrm == <<"l", "s", ";", "r", "m">>
T_cd == <<"c", "d">>
T_pwd == <<"p", "w", "d">>
T_echo == <<"e", "c", "h", "o">>
T_nosuch == <<"n", "o">>
T_noexec == <<"n", "x">>
T_s == <<"s">>
T_x == <<"x">>

Directories ==
    {Slash, P_tmp, P_tmp_s, P_tmp2, P_h, P_h_s, P_o, P_p, P_p_s, P_bin, P_sp,
     P_sp \o Slash \o T_lsof}

ExecutableFiles ==
    {P_bin \o Slash \o T_ls, P_bin \o Slash \o T_lsof, P_bin \o Slash \o T_echo,
     P_bin \o Slash \o T_pwd, P_sp \o Slash \o T_echo}

PlainFiles == {P_tmp_f, P_bin \o Slash \o T_noexec, P_sp \o Slash \o T_ls}

Symlinks == {P_tmp_l}

SymlinkTarget(path) == P_o

\* the directory the server process itself was started in
ProcessDir == P_p

\* one element of a path resolution by the kernel, from the real path `at`
WalkStep(at, el) ==
    IF el = <<>> \/ el = Dot THEN [err |-> "", path |-> at]
    ELSE IF el = DotDot THEN [err |-> "", path |-> Clean(at \o Slash \o DotDot)]
    ELSE With(IF at = Slash THEN Slash \o el ELSE at \o Slash \o el, LAMBDA cand :
            IF cand \in Symlinks THEN [err |-> "", path |-> SymlinkTarget(cand)]
            ELSE IF cand \in Directories \cup ExecutableFiles \cup PlainFiles
                 THEN [err |-> "", path |-> cand]
                 ELSE [err |-> "ENOENT", path |-> cand])

RECURSIVE Walk(_, _, _)
Walk(elems, i, at) ==
    IF i > Len(elems) THEN [err |-> "", path |-> at]
    ELSE IF at \notin Directories THEN [err |-> "ENOTDIR", path |-> at]
    ELSE With(WalkStep(at, elems[i]), LAMBDA step :
            IF step.err # "" THEN step ELSE Walk(elems, i + 1, step.path))

ResolvePath(str) ==
    With(str, LAMBDA path :
        IF path = <<>> THEN [err |-> "ENOENT", path |-> <<>>]
        ELSE With(SplitPath(IF IsAbs(path) THEN path ELSE ProcessDir \o Slash \o path),
                  LAMBDA elems : Walk(elems, 1, Slash)))

\* os.Stat: follows symbolic links; relative names are taken from ProcessDir
Stat(path) ==
    With(ResolvePath(path), LAMBDA r :
        [err |-> r.err,
         IsDir |-> r.err = "" /\ r.path \in Directories,
         exec |-> r.err = "" /\ r.path \in Directories \cup ExecutableFiles])

\* os.IsNotExist(err) for the error of a Stat
IsNotExist(st) == st.err = "ENOENT"

\* filepath.EvalSymlinks (paths here are absolute)
EvalSymlinks(path) == ResolvePath(path)

\* isExecutable: some execute bit of the mode is set (directories have them)
isExecutable(info) == info.exec

-----------------------------------------------------------------------------
(* Values returned by the executor *)

\* types.CommandResult
CommandResult(command, workingDir, stdout, stderr, exitCode, error) ==
    [Command |-> command, WorkingDir |-> workingDir, Stdout |-> stdout,
     Stderr |-> stderr, ExitCode |-> exitCode, Error |-> error]

\* a Go error value: nil, or an error with a message
Nil == [isNil |-> TRUE, msg |-> <<>>]
NewError(message) == [isNil |-> FALSE, msg |-> message]

\* cmd.Run() has not been called
NotRun == [kind |-> "", code |-> 0, stdout |-> <<>>, stderr |-> <<>>, msg |-> <<>>]

\* no exec.Cmd was built.  An exec.Cmd is its Path, its Args after the
\* program name, its Dir and its Env, and what cmd.Run() reported; Env is
\* kept as the set of its entries.
NoProc == [path |-> <<>>, args |-> <<>>, dir |-> <<>>, env |-> {}, state |-> NotRun]

\* what a call leaves behind: the returned pair, the new value of
\* currentWorkingDir, and the exec.Cmd that was run (if any)
Return(result, error, dir, cmd) ==
    [result |-> result, err |-> error, cwd |-> dir, proc |-> cmd]

\* What cmd.Run() can report for a child: it ran and exited 0, it ran and
\* exited with a non-zero status (*exec.ExitError), or it could not be started.
ProcessOutcomes ==
    {[kind |-> "ok", code |-> 0, stdout |-> <<"o">>, stderr |-> <<>>,
      msg |-> <<>>],
     [kind |-> "exit", code |-> 2, stdout |-> <<"o">>, stderr |-> <<"e">>,
      msg |-> <<"exit status 2">>],
     [kind |-> "nostart", code |-> 0, stdout |-> <<>>, stderr |-> <<>>,
      msg |-> <<"fork/exec failed">>]}

StartFailure == CHOOSE o \in ProcessOutcomes : o.kind = "nostart"

\* cmd.Run(): a child cannot be started in a Dir that is not a directory
Run(cmd, outcome) == IF Stat(cmd.dir).IsDir THEN outcome ELSE StartFailure

\* Finished returning a nil error for a child that exited with a non-zero status
Finished_ExitNotError(command, workingDir, cmd, ran, dirAfter) ==
    IF ran.kind = "nostart"
    THEN Return(CommandResult(command, workingDir, ran.stdout, ran.stderr, 1, ran.msg),
                NewError(ran.msg), dirAfter, [cmd EXCEPT !.state = ran])
    ELSE Return(CommandResult(command, workingDir, ran.stdout, ran.stderr, ran.code, ran.msg),
                Nil, dirAfter, [cmd EXCEPT !.state = ran])

\* Finished giving ExitCode 1 to every failure
Finished_ExitCodeOne(command, workingDir, cmd, ran, dirAfter) ==
    IF ran.kind # "ok"
    THEN Return(CommandResult(command, workingDir, ran.stdout, ran.stderr, 1, ran.msg),
                NewError(ran.msg), dirAfter, [cmd EXCEPT !.state = ran])
    ELSE Return(CommandResult(command, workingDir, ran.stdout, ran.stderr, 0, <<>>),
                Nil, dirAfter, [cmd EXCEPT !.state = ran])

\* the result of a command that was run (executeCommand, after cmd.Run())
Finished(command, workingDir, cmd, ran, dirAfter) ==
    IF ran.kind # "ok"
    THEN Return(CommandResult(command, workingDir, ran.stdout, ran.stderr,
                              IF ran.kind = "exit" THEN ran.code ELSE 1, ran.msg),
                NewError(ran.msg), dirAfter, [cmd EXCEPT !.state = ran])
    ELSE Return(CommandResult(command, workingDir, ran.stdout, ran.stderr, 0, <<>>),
                Nil, dirAfter, [cmd EXCEPT !.state = ran])

\* a call that fails before anything is run
Failed(command, workingDir, message, error, dirAfter) ==
    Return(CommandResult(command, workingDir, <<>>, <<>>, 1, message),
           error, dirAfter, NoProc)

-----------------------------------------------------------------------------
(* package executor: commandExecutor *)

\* IsCommandAllowed with a prefix test in place of the equality
IsCommandAllowed_Prefix(command) ==
    IF command = <<>> THEN FALSE
    ELSE With(Fields(command), LAMBDA parts :
            IF Len(parts) = 0 THEN FALSE
            ELSE \E i \in 1..Len(allowedCommands) : HasPrefix(parts[1], allowedCommands[i]))

\* IsCommandAllowed checks if the command is in the allowed list
IsCommandAllowed(command) ==
    IF command = <<>> THEN FALSE
    ELSE With(Fields(command), LAMBDA parts :
            IF Len(parts) = 0 THEN FALSE
            ELSE \E i \in 1..Len(allowedCommands) : parts[1] = allowedCommands[i])

GetAllowedCommands == allowedCommands

GetCurrentWorkingDir == currentWorkingDir

\* IsDirectoryAllowed matching whole path segments
IsDirectoryAllowed_Segments(dir) ==
    IF Len(allowedDirs) = 0 THEN TRUE
    ELSE \E i \in 1..Len(allowedDirs) :
            \/ dir = allowedDirs[i]
            \/ HasPrefix(dir, allowedDirs[i] \o Slash)

\* IsDirectoryAllowed checks if directory access is allowed
IsDirectoryAllowed(dir) ==
    IF Len(allowedDirs) = 0 THEN TRUE
    ELSE \E i \in 1..Len(allowedDirs) : HasPrefix(dir, allowedDirs[i])

isChangeDirectoryCommand(command) ==
    With(Fields(command), LAMBDA parts : Len(parts) > 0 /\ parts[1] = T_cd)

\* isPrintWorkingDirectoryCommand comparing the whole command line
isPrintWorkingDirectoryCommand_Exact(command) == command = T_pwd

isPrintWorkingDirectoryCommand(command) ==
    With(Fields(command), LAMBDA parts : Len(parts) > 0 /\ parts[1] = T_pwd)

\* the test both lookups apply to a candidate: it exists, is no directory,
\* and is executable
IsExecutableFile(path) ==
    With(Stat(path), LAMBDA info : info.err = "" /\ ~info.IsDir /\ isExecutable(info))

RECURSIVE FirstExecutable(_, _, _)
\* the first directory of dirs, from index i, that holds an executable file name
FirstExecutable(dirs, name, i) ==
    IF i > Len(dirs) THEN <<>>
    ELSE With(Join(IF dirs[i] = <<>> THEN Dot ELSE dirs[i], name), LAMBDA path :
            IF IsExecutableFile(path) THEN path ELSE FirstExecutable(dirs, name, i + 1))

\* exec.LookPath over the PATH of the server process
LookPath(cmdName) ==
    With(SplitList(osEnv.PATH), LAMBDA dirs : FirstExecutable(dirs, cmdName, 1))

NotFound(cmdName) == [err |-> NewError(<<"command not found: ">> \o cmdName), path |-> <<>>]

\* resolveAbsolute accepting whatever exists
resolveAbsolute_NoExecCheck(cmdName) ==
    With(Stat(cmdName), LAMBDA info :
        IF info.err # "" THEN NotFound(cmdName)
        ELSE [err |-> Nil, path |-> cmdName])

\* resolveBinaryPath, for a command name that is an absolute path
resolveAbsolute(cmdName) ==
    With(Stat(cmdName), LAMBDA info :
        IF info.err # "" THEN NotFound(cmdName)
        ELSE IF info.IsDir \/ ~isExecutable(info)
             THEN [err |-> NewError(<<"not executable: ">> \o cmdName), path |-> <<>>]
             ELSE [err |-> Nil, path |-> cmdName])

\* resolveByName falling back to the system PATH whatever pathBehavior is
resolveByName_AlwaysFallback(cmdName) ==
    With(FirstExecutable(searchPaths, cmdName, 1), LAMBDA configured :
        IF configured # <<>> THEN [err |-> Nil, path |-> configured]
        ELSE With(LookPath(cmdName), LAMBDA system :
                IF system # <<>> THEN [err |-> Nil, path |-> system]
                ELSE NotFound(cmdName)))

\* resolveByName asking the system PATH before the configured directories
resolveByName_SystemFirst(cmdName) ==
    With(IF pathBehavior # "replace" THEN LookPath(cmdName) ELSE <<>>, LAMBDA system :
        IF system # <<>> THEN [err |-> Nil, path |-> system]
        ELSE With(FirstExecutable(searchPaths, cmdName, 1), LAMBDA configured :
                IF configured # <<>> THEN [err |-> Nil, path |-> configured]
                ELSE NotFound(cmdName)))

\* resolveBinaryPath, for any other command name
resolveByName(cmdName) ==
    With(FirstExecutable(searchPaths, cmdName, 1), LAMBDA configured :
        IF configured # <<>> THEN [err |-> Nil, path |-> configured]
        ELSE IF pathBehavior # "replace"
             THEN With(LookPath(cmdName), LAMBDA system :
                     IF system # <<>> THEN [err |-> Nil, path |-> system]
                     ELSE NotFound(cmdName))
             ELSE NotFound(cmdName))

\* resolveBinaryPath looking up the whole command line instead of its first
\* token
resolveBinaryPath_WholeCommand(command) ==
    With(Fields(command), LAMBDA parts :
        IF Len(parts) = 0 THEN [err |-> NewError(<<"empty command">>), path |-> <<>>]
        ELSE IF IsAbs(parts[1]) THEN resolveAbsolute(JoinStrings(parts, <<" ">>))
        ELSE resolveByName(JoinStrings(parts, <<" ">>)))

\* resolveBinaryPath resolves the absolute path of the command
resolveBinaryPath(command) ==
    With(Fields(command), LAMBDA parts :
        IF Len(parts) = 0 THEN [err |-> NewError(<<"empty command">>), path |-> <<>>]
        ELSE IF IsAbs(parts[1]) THEN resolveAbsolute(parts[1])
        ELSE resolveByName(parts[1]))

\* changeTarget joining a relative argument to the process's own directory
changeTarget_ProcessDir(targetDir) ==
    With(IF IsAbs(targetDir) THEN targetDir ELSE Join(ProcessDir, targetDir),
         LAMBDA joined :
            With(EvalSymlinks(joined), LAMBDA eval :
                IF eval.err = "" THEN eval.path ELSE joined))

\* handleChangeDirectory with an argument: the directory that is checked
changeTarget(targetDir) ==
    With(IF IsAbs(targetDir) THEN targetDir ELSE Join(currentWorkingDir, targetDir),
         LAMBDA joined :
            With(EvalSymlinks(joined), LAMBDA eval :
                IF eval.err = "" THEN eval.path ELSE joined))

\* changeDirectory assigning the directory before the access check
changeDirectory_CommitFirst(command, newDir) ==
    With(Stat(newDir), LAMBDA stat :
        IF stat.err # "" \/ ~stat.IsDir
        THEN Failed(command, currentWorkingDir,
                    <<"Directory does not exist: ">> \o newDir,
                    NewError(<<"Directory does not exist: ">> \o newDir),
                    currentWorkingDir)
        ELSE IF ~IsDirectoryAllowed(newDir)
        THEN Failed(command, currentWorkingDir,
                    <<"Access to directory not allowed: ">> \o newDir,
                    NewError(<<"Access to directory not allowed: ">> \o newDir),
                    newDir)
        ELSE Return(CommandResult(command, newDir,
                                  <<"Changed directory to ">> \o newDir, <<>>, 0, <<>>),
                    Nil, newDir, NoProc))

\* handleChangeDirectory, from the existence check on: check newDir, then
\* make it the working directory
changeDirectory(command, newDir) ==
    With(Stat(newDir), LAMBDA stat :
        IF stat.err # "" \/ ~stat.IsDir
        THEN Failed(command, currentWorkingDir,
                    <<"Directory does not exist: ">> \o newDir,
                    NewError(<<"Directory does not exist: ">> \o newDir),
                    currentWorkingDir)
        ELSE IF ~IsDirectoryAllowed(newDir)
        THEN Failed(command, currentWorkingDir,
                    <<"Access to directory not allowed: ">> \o newDir,
                    NewError(<<"Access to directory not allowed: ">> \o newDir),
                    currentWorkingDir)
        ELSE Return(CommandResult(command, newDir,
                                  <<"Changed directory to ">> \o newDir, <<>>, 0, <<>>),
                    Nil, newDir, NoProc))

\* handleChangeDirectory leaving result.WorkingDir as it was on the way home
handleChangeDirectory_StaleResult(parts) ==
    With(JoinStrings(parts, <<" ">>), LAMBDA command :
        IF Len(parts) < 2
        THEN IF osEnv.HOME # <<>>
             THEN Return(CommandResult(command, currentWorkingDir,
                                       <<"Changed directory to ">> \o osEnv.HOME,
                                       <<>>, 0, <<>>),
                         Nil, osEnv.HOME, NoProc)
             ELSE Failed(command, currentWorkingDir,
                         <<"HOME environment variable not set">>,
                         NewError(<<"HOME environment variable not set">>),
                         currentWorkingDir)
        ELSE With(changeTarget(parts[2]), LAMBDA newDir : changeDirectory(command, newDir)))

\* handleChangeDirectory handles the cd command
handleChangeDirectory(parts) ==
    With(JoinStrings(parts, <<" ">>), LAMBDA command :
        IF Len(parts) < 2
        THEN IF osEnv.HOME # <<>>
             THEN Return(CommandResult(command, osEnv.HOME,
                                       <<"Changed directory to ">> \o osEnv.HOME,
                                       <<>>, 0, <<>>),
                         Nil, osEnv.HOME, NoProc)
             ELSE Failed(command, currentWorkingDir,
                         <<"HOME environment variable not set">>,
                         NewError(<<"HOME environment variable not set">>),
                         currentWorkingDir)
        ELSE With(changeTarget(parts[2]), LAMBDA newDir : changeDirectory(command, newDir)))

\* handlePrintWorkingDirectory reporting the directory of the server process
handlePrintWorkingDirectory_Getwd ==
    With(ProcessDir, LAMBDA dir :
        Return(CommandResult(T_pwd, dir, dir, <<>>, 0, <<>>), Nil, currentWorkingDir, NoProc))

\* handlePrintWorkingDirectory handles the pwd command
handlePrintWorkingDirectory ==
    Return(CommandResult(T_pwd, currentWorkingDir, currentWorkingDir, <<>>, 0, <<>>),
           Nil, currentWorkingDir, NoProc)

-----------------------------------------------------------------------------
(* package executor: the environment of a child.  A map[string]string is a  *)
(* function from keys to values; os.Environ() is osEnv.Environ.            *)

K_PATH == <<"P", "A", "T", "H">>

\* string(os.PathListSeparator)
PathListSeparator == <<":">>

NoMap == [k \in {} |-> <<>>]

RECURSIVE IndexFrom(_, _, _)
\* the first index >= i of s that holds the character c, or 0
IndexFrom(s, c, i) ==
    IF i > Len(s) THEN 0 ELSE IF s[i] = c THEN i ELSE IndexFrom(s, c, i + 1)

\* strings.SplitN(e, "=", 2)
SplitN2(e) ==
    With(IndexFrom(e, "=", 1), LAMBDA i :
        IF i = 0 THEN <<e>> ELSE <<SubSeq(e, 1, i - 1), SubSeq(e, i + 1, Len(e))>>)

\* for k, v := range n { m[k] = v }
Overlay(m, n) ==
    [k \in DOMAIN m \cup DOMAIN n |-> IF k \in DOMAIN n THEN n[k] ELSE m[k]]

RECURSIVE environMap(_, _, _)
\* buildEnvironment: convert current environment variables to a map
environMap(env, i, envMap) ==
    IF i > Len(env) THEN envMap
    ELSE With(SplitN2(env[i]), LAMBDA parts :
            environMap(env, i + 1,
                       IF Len(parts) = 2
                       THEN Overlay(envMap, [k \in {parts[1]} |-> parts[2]])
                       ELSE envMap))

\* overlaidEnvironment applying the configured variables after the per-call ones
overlaidEnvironment_ConfigLast(additionalEnv) ==
    With(environMap(osEnv.Environ, 1, NoMap), LAMBDA envMap :
        Overlay(Overlay(envMap, additionalEnv), cfg.CommandExec.Environment))

\* buildEnvironment: the map after the configured and the per-call variables
\* have been applied
overlaidEnvironment(additionalEnv) ==
    With(environMap(osEnv.Environ, 1, NoMap), LAMBDA envMap :
        Overlay(Overlay(envMap, cfg.CommandExec.Environment), additionalEnv))

\* newPath with the cases of "prepend" and "append" exchanged
newPath_Swapped(path) ==
    With(JoinStrings(searchPaths, PathListSeparator), LAMBDA joined :
        IF pathBehavior = "append" THEN joined \o PathListSeparator \o path
        ELSE IF pathBehavior = "prepend" THEN path \o PathListSeparator \o joined
        ELSE IF pathBehavior = "replace" THEN joined
        ELSE joined \o PathListSeparator \o path)

\* buildEnvironment: build new PATH
newPath(path) ==
    With(JoinStrings(searchPaths, PathListSeparator), LAMBDA joined :
        IF pathBehavior = "prepend" THEN joined \o PathListSeparator \o path
        ELSE IF pathBehavior = "append" THEN path \o PathListSeparator \o joined
        ELSE IF pathBehavior = "replace" THEN joined
        ELSE joined \o PathListSeparator \o path)

\* buildEnvironment: envMap when the loop that formats it starts
environmentMap(additionalEnv) ==
    With(overlaidEnvironment(additionalEnv), LAMBDA envMap :
        With(IF K_PATH \in DOMAIN envMap THEN envMap[K_PATH] ELSE <<>>, LAMBDA path :
            IF Len(searchPaths) > 0
            THEN Overlay(envMap, [k \in {K_PATH} |-> newPath(path)])
            ELSE envMap))

\* the orders in which a range loop may visit the keys of a map
IterationOrders(envMap) ==
    With(DOMAIN envMap, LAMBDA keys :
        {order \in [1..Cardinality(keys) -> keys] :
            {order[i] : i \in 1..Cardinality(keys)} = keys})

\* buildEnvironment builds the environment variables; order is the order in
\* which the last loop visits the map
buildEnvironment(additionalEnv, order) ==
    With(environmentMap(additionalEnv), LAMBDA envMap :
        [i \in 1..Len(order) |-> order[i] \o <<"=">> \o envMap[order[i]]])

\* cmd.Env = e.buildEnvironment(env): the strings buildEnvironment returns,
\* which are the same in every order of the loop
cmdEnv(additionalEnv) ==
    With(environmentMap(additionalEnv), LAMBDA envMap :
        {k \o <<"=">> \o envMap[k] : k \in DOMAIN envMap})

-----------------------------------------------------------------------------
(* package server: CommandExecutorServer, the older executor.  Its fields  *)
(* are the same variables; it is exercised by SpecServer.                  *)

\* CommandExecutorServer.buildEnvironment, as the set of its entries:
\* os.Environ() as it is when there are no search paths, else with every
\* PATH= entry replaced by the new PATH, which is built from the first one
serverBuildEnvironment ==
    With(osEnv.Environ, LAMBDA env :
        With({i \in 1..Len(env) : HasPrefix(env[i], K_PATH \o <<"=">>)}, LAMBDA at :
            IF Len(searchPaths) = 0 THEN {env[i] : i \in 1..Len(env)}
            ELSE With(IF at = {} THEN <<>>
                      ELSE With(env[CHOOSE i \in at : \A j \in at : i <= j], LAMBDA e :
                                SubSeq(e, Len(K_PATH) + 2, Len(e))),
                      LAMBDA path :
                        {IF i \in at THEN K_PATH \o <<"=">> \o newPath(path) ELSE env[i] :
                            i \in 1..Len(env)}
                          \cup (IF at = {} THEN {K_PATH \o <<"=">> \o newPath(path)}
                                ELSE {}))))

\* HandleCdCommand: the same statements as handleChangeDirectory
HandleCdCommand(parts) == handleChangeDirectory(parts)

\* ResolveBinaryPath: the same statements as resolveBinaryPath
ResolveBinaryPath(command) == resolveBinaryPath(command)

\* the tail of ExecuteCommand and of ExecuteCommandInDir: resolve the binary
\* and run it in dir; currentWorkingDir is `unresolved` on the return after a
\* failed resolution and `after` on the last return
RunBinary(command, parts, dir, unresolved, after, outcome) ==
    With(ResolveBinaryPath(command), LAMBDA resolved :
        IF ~resolved.err.isNil
        THEN Failed(command, dir, resolved.err.msg, resolved.err, unresolved)
        ELSE With([path |-> resolved.path, args |-> Tail(parts), dir |-> dir,
                   env |-> serverBuildEnvironment, state |-> NotRun], LAMBDA cmd :
                With(Run(cmd, outcome), LAMBDA ran :
                    Finished(command, dir, cmd, ran, after))))

\* CommandExecutorServer.ExecuteCommand
ExecuteCommand(command, outcome) ==
    With(Fields(command), LAMBDA parts :
        IF Len(parts) = 0
        THEN Failed(command, currentWorkingDir, <<"empty command">>,
                    NewError(<<"empty command">>), currentWorkingDir)
        ELSE IF parts[1] = T_cd
        THEN HandleCdCommand(parts)
        ELSE IF parts[1] = T_pwd
        THEN Return(CommandResult(command, currentWorkingDir, currentWorkingDir,
                                  <<>>, 0, <<>>),
                    Nil, currentWorkingDir, NoProc)
        ELSE RunBinary(command, parts, currentWorkingDir, currentWorkingDir,
                       currentWorkingDir, outcome))

\* CommandExecutorServer.ExecuteCommandInDir.  After the two directory checks
\* s.currentWorkingDir is workingDir; only the last return assigns
\* originalWorkingDir back.
ExecuteCommandInDir(command, workingDir, outcome) ==
    IF workingDir = <<>> THEN ExecuteCommand(command, outcome)
    ELSE With(<<Stat(workingDir), Fields(command), currentWorkingDir>>, LAMBDA v :
        IF v[1].err # "" \/ ~v[1].IsDir
        THEN Failed(command, currentWorkingDir,
                    <<"Directory does not exist: ">> \o workingDir,
                    NewError(<<"Directory does not exist: ">> \o workingDir),
                    currentWorkingDir)
        ELSE IF ~IsDirectoryAllowed(workingDir)
        THEN Failed(command, currentWorkingDir,
                    <<"Access to directory not allowed: ">> \o workingDir,
                    NewError(<<"Access to directory not allowed: ">> \o workingDir),
                    currentWorkingDir)
        ELSE IF Len(v[2]) = 0
        THEN Failed(command, workingDir, <<"empty command">>,
                    NewError(<<"empty command">>), workingDir)
        ELSE IF v[2][1] = T_cd
        THEN Failed(command, workingDir,
                    <<"cd command is not supported in ExecuteCommandInDir">>,
                    NewError(<<"cd command is not supported in ExecuteCommandInDir">>),
                    workingDir)
        ELSE IF v[2][1] = T_pwd
        THEN Return(CommandResult(command, workingDir, workingDir, <<>>, 0, <<>>),
                    Nil, workingDir, NoProc)
        ELSE RunBinary(command, v[2], workingDir, workingDir, v[3], outcome))

-----------------------------------------------------------------------------
(* package executor: running a command *)

\* executeCommand handing the command line to a shell
executeCommand_Shell(command, workingDir, env, outcome) ==
    With(Fields(command), LAMBDA parts :
        IF Len(parts) = 0
        THEN Failed(command, workingDir, <<"empty command">>,
                    NewError(<<"empty command">>), currentWorkingDir)
        ELSE With([path |-> <<"/", "b", "i", "n", "/", "s", "h">>,
                   args |-> <<<<"-", "c">>, command>>, dir |-> workingDir,
                   env |-> cmdEnv(env), state |-> NotRun],
                  LAMBDA cmd :
                    With(Run(cmd, outcome), LAMBDA ran :
                        Finished(command, workingDir, cmd, ran, currentWorkingDir))))

\* executeCommand executes the specified command
executeCommand(command, workingDir, env, outcome) ==
    With(Fields(command), LAMBDA parts :
        IF Len(parts) = 0
        THEN Failed(command, workingDir, <<"empty command">>,
                    NewError(<<"empty command">>), currentWorkingDir)
        ELSE With(resolveBinaryPath(command), LAMBDA resolved :
            IF ~resolved.err.isNil
            THEN Failed(command, workingDir, resolved.err.msg, resolved.err,
                        currentWorkingDir)
            ELSE With([path |-> resolved.path, args |-> Tail(parts), dir |-> workingDir,
                       env |-> cmdEnv(env), state |-> NotRun],
                      LAMBDA cmd :
                        With(Run(cmd, outcome), LAMBDA ran :
                            Finished(command, workingDir, cmd, ran, currentWorkingDir)))))

\* directoryError without the access check
directoryError_NoGuard(workingDir) ==
    With(Stat(workingDir), LAMBDA stat :
        IF stat.err # "" \/ ~stat.IsDir
        THEN <<"Directory does not exist: ">> \o workingDir
        ELSE <<>>)

\* executeInDirectory, the two checks of the directory: the message of the
\* check that fails, or <<>>
directoryError(workingDir) ==
    With(Stat(workingDir), LAMBDA stat :
        IF stat.err # "" \/ ~stat.IsDir
        THEN <<"Directory does not exist: ">> \o workingDir
        ELSE IF ~IsDirectoryAllowed(workingDir)
             THEN <<"Access to directory not allowed: ">> \o workingDir
             ELSE <<>>)

\* executeInCheckedDirectory without the cd case
executeInCheckedDirectory_NoCd(command, workingDir, env, outcome) ==
    With(Fields(command), LAMBDA parts :
        IF Len(parts) > 0 /\ parts[1] = T_pwd
        THEN Return(CommandResult(T_pwd, workingDir, workingDir, <<>>, 0, <<>>),
                    Nil, currentWorkingDir, NoProc)
        ELSE executeCommand(command, workingDir, env, outcome))

\* executeInDirectory, once the directory has passed the checks
executeInCheckedDirectory(command, workingDir, env, outcome) ==
    With(Fields(command), LAMBDA parts :
        IF Len(parts) > 0 /\ parts[1] = T_cd
        THEN Failed(command, workingDir,
                    <<"cd command is not supported when using a temporary working directory">>,
                    NewError(<<"cd command is not supported in executeInDirectory">>),
                    currentWorkingDir)
        ELSE IF Len(parts) > 0 /\ parts[1] = T_pwd
        THEN Return(CommandResult(T_pwd, workingDir, workingDir, <<>>, 0, <<>>),
                    Nil, currentWorkingDir, NoProc)
        ELSE executeCommand(command, workingDir, env, outcome))

\* executeInDirectory done the way the older ExecuteCommandInDir does it
executeInDirectory_Legacy(command, workingDir, env, outcome) ==
    ExecuteCommandInDir(command, workingDir, outcome)

\* executeInDirectory executes the command in the specified directory
executeInDirectory(command, workingDir, env, outcome) ==
    With(directoryError(workingDir), LAMBDA errMsg :
        IF errMsg # <<>>
        THEN Failed(command, currentWorkingDir, errMsg, NewError(errMsg), currentWorkingDir)
        ELSE executeInCheckedDirectory(command, workingDir, env, outcome))

\* Execute handing a call with a working directory on before it looks at the
\* command
Execute_DirectoryFirst(command, options, outcome) ==
    With(Fields(command), LAMBDA parts :
        IF options.WorkingDir # <<>>
        THEN executeInDirectory(command, options.WorkingDir, options.Env, outcome)
        ELSE IF Len(parts) = 0
        THEN Failed(command, currentWorkingDir, <<"empty command">>,
                    NewError(<<"empty command">>), currentWorkingDir)
        ELSE IF isChangeDirectoryCommand(command)
        THEN handleChangeDirectory(parts)
        ELSE IF isPrintWorkingDirectoryCommand(command)
        THEN handlePrintWorkingDirectory
        ELSE executeCommand(command, currentWorkingDir, options.Env, outcome))

\* Execute refusing a command that IsCommandAllowed rejects
Execute_Allowlisted(command, options, outcome) ==
    With(Fields(command), LAMBDA parts :
        IF Len(parts) = 0
        THEN Failed(command, currentWorkingDir, <<"empty command">>,
                    NewError(<<"empty command">>), currentWorkingDir)
        ELSE IF ~IsCommandAllowed(command)
        THEN Failed(command, currentWorkingDir, <<"command not allowed: ">> \o command,
                    NewError(<<"command not allowed: ">> \o command), currentWorkingDir)
        ELSE IF options.WorkingDir # <<>>
        THEN executeInDirectory(command, options.WorkingDir, options.Env, outcome)
        ELSE IF isChangeDirectoryCommand(command)
        THEN handleChangeDirectory(parts)
        ELSE IF isPrintWorkingDirectoryCommand(command)
        THEN handlePrintWorkingDirectory
        ELSE executeCommand(command, currentWorkingDir, options.Env, outcome))

\* Execute executes the specified command
Execute(command, options, outcome) ==
    With(Fields(command), LAMBDA parts :
        IF Len(parts) = 0
        THEN Failed(command, currentWorkingDir, <<"empty command">>,
                    NewError(<<"empty command">>), currentWorkingDir)
        ELSE IF options.WorkingDir # <<>>
        THEN executeInDirectory(command, options.WorkingDir, options.Env, outcome)
        ELSE IF isChangeDirectoryCommand(command)
        THEN handleChangeDirectory(parts)
        ELSE IF isPrintWorkingDirectoryCommand(command)
        THEN handlePrintWorkingDirectory
        ELSE executeCommand(command, currentWorkingDir, options.Env, outcome))

\* initialWorkingDir without the HOME, /tmp and missing-directory fallbacks
initialWorkingDir_NoFallback(c, env) == c.CommandExec.DefaultWorkingDir

\* newCommandExecutor: the working directory the executor starts in
initialWorkingDir(c, env) ==
    With(IF c.CommandExec.DefaultWorkingDir = <<>>
         THEN IF env.HOME # <<>> THEN env.HOME ELSE P_tmp
         ELSE c.CommandExec.DefaultWorkingDir,
         LAMBDA workingDir : IF IsNotExist(Stat(workingDir)) THEN P_tmp ELSE workingDir)

\* newCommandExecutor storing path_behavior as it is configured
newCommandExecutor_NoValidation(c, env) ==
    [allowedCommands |-> c.CommandExec.AllowedCommands,
     currentWorkingDir |-> initialWorkingDir(c, env),
     allowedDirs |-> c.CommandExec.AllowedDirs,
     searchPaths |-> c.CommandExec.SearchPaths,
     pathBehavior |-> c.CommandExec.PathBehavior]

\* newCommandExecutor creates a new instance of commandExecutor
newCommandExecutor(c, env) ==
    [allowedCommands |-> c.CommandExec.AllowedCommands,
     currentWorkingDir |-> initialWorkingDir(c, env),
     allowedDirs |-> c.CommandExec.AllowedDirs,
     searchPaths |-> c.CommandExec.SearchPaths,
     pathBehavior |-> IF c.CommandExec.PathBehavior \notin {"prepend", "replace", "append"}
                      THEN "prepend" ELSE c.CommandExec.PathBehavior]

-----------------------------------------------------------------------------
(* package mcp: the command_exec tool handler *)

\* json.Marshal of a types.CommandResult (the error key is omitempty)
Marshal(result) ==
    IF result.Error = <<>>
    THEN [command |-> result.Command, working_dir |-> result.WorkingDir,
          stdout |-> result.Stdout, stderr |-> result.Stderr,
          exit_code |-> result.ExitCode]
    ELSE [command |-> result.Command, working_dir |-> result.WorkingDir,
          stdout |-> result.Stdout, stderr |-> result.Stderr,
          exit_code |-> result.ExitCode, error |-> result.Error]

NoContent == [command |-> <<>>]

\* mcp.NewToolResultError / mcp.NewToolResultText
NewToolResultError(text) == [IsError |-> TRUE, Text |-> text, Content |-> NoContent]
NewToolResultText(content) == [IsError |-> FALSE, Text |-> <<>>, Content |-> content]

NoResult == CommandResult(<<>>, <<>>, <<>>, <<>>, 0, <<>>)

\* the handler without its IsCommandAllowed check
CommandExecHandler_Unguarded(arguments, outcome) ==
    IF arguments.command = <<>>
    THEN [tool |-> NewToolResultError(<<"empty command provided">>), executed |-> FALSE,
          call |-> Return(NoResult, Nil, currentWorkingDir, NoProc)]
    ELSE With(Execute(arguments.command,
                      [WorkingDir |-> arguments.working_dir, Env |-> arguments.env],
                      outcome),
              LAMBDA call : [tool |-> NewToolResultText(Marshal(call.result)),
                             executed |-> TRUE, call |-> call])

\* the handler RegisterCommandExecTool adds for command_exec
CommandExecHandler(arguments, outcome) ==
    IF arguments.command = <<>>
    THEN [tool |-> NewToolResultError(<<"empty command provided">>), executed |-> FALSE,
          call |-> Return(NoResult, Nil, currentWorkingDir, NoProc)]
    ELSE IF ~IsCommandAllowed(arguments.command)
    THEN [tool |-> NewToolResultError(<<"command not allowed: ">> \o arguments.command),
          executed |-> FALSE,
          call |-> Return(NoResult, Nil, currentWorkingDir, NoProc)]
    ELSE With(Execute(arguments.command,
                      [WorkingDir |-> arguments.working_dir, Env |-> arguments.env],
                      outcome),
              LAMBDA call : [tool |-> NewToolResultText(Marshal(call.result)),
                             executed |-> TRUE, call |-> call])

-----------------------------------------------------------------------------
(* Configurations, environments and call arguments *)

\* how many extra "x" arguments a generated command line may carry
MaxExtraArgs == 1

K_A == <<"A">>
K_B == <<"B">>
K_C == <<"C">>
V_1 == <<"1">>
V_2 == <<"2">>
V_3 == <<"3">>

Entry(k, v) == k \o <<"=">> \o v

Config(allowed, defaultDir, dirs, paths, behavior, environment) ==
    [CommandExec |-> [AllowedCommands |-> allowed, DefaultWorkingDir |-> defaultDir,
                      AllowedDirs |-> dirs, SearchPaths |-> paths,
                      PathBehavior |-> behavior, Environment |-> environment]]

\* the environment of the server process: what os.Getenv returns for HOME and
\* PATH, and os.Environ()
Environ(home) ==
    [HOME |-> home, PATH |-> P_bin,
     Environ |-> <<Entry(K_PATH, P_bin)>>
                    \o (IF home # <<>> THEN <<Entry(<<"H", "O", "M", "E">>, home)>>
                        ELSE <<>>)]

\* (configuration, process environment) pairs the server is started with
Startups ==
    {<<Config(<<T_ls, T_echo, T_cd, T_pwd>>, P_tmp, <<P_tmp>>, <<>>, "prepend", NoMap),
       Environ(P_h)>>,
     <<Config(<<T_ls>>, <<>>, <<>>, <<P_sp>>, "replace", NoMap), Environ(P_h)>>,
     <<Config(<<T_echo, T_cd, T_pwd, T_nosuch>>, P_missing, <<P_tmp, P_h>>,
              <<P_sp, P_bin>>, "append", K_C :> V_2),
       Environ(<<>>)>>,
     <<Config(<<T_cd, T_pwd, T_noexec>>, <<>>, <<>>, <<P_sp>>, "", NoMap),
       Environ(<<>>)>>}

P_bin_echo == P_bin \o Slash \o T_echo

\* token lists of the command lines that are sent
BaseCommands ==
    {<<>>, <<T_ls>>, <<T_ls, <<"-", "l", "a">>>>, <<T_lsof, <<"-", "p">>, <<"1">>>>,
     <<T_lsrm, <<"-", "r", "f">>>>,
     <<T_cd>>, <<T_cd, T_s>>, <<T_cd, DotDot>>, <<T_cd, P_tmp>>, <<T_cd, P_tmp_l>>,
     <<T_cd, P_o>>, <<T_cd, P_missing>>, <<T_cd, P_tmp2>>, <<T_cd, P_h>>,
     <<T_cd, P_tmp_f>>,
     <<T_pwd>>, <<T_echo>>, <<T_nosuch>>, <<T_noexec>>,
     <<T_echo, <<"a", ";">>, <<"|">>, <<"&", "&">>, T_ls>>,
     <<P_bin_echo>>, <<P_bin \o Slash \o T_noexec>>, <<P_missing>>, <<P_tmp>>}

RECURSIVE Repeat(_, _)
Repeat(x, n) == IF n = 0 THEN <<>> ELSE <<x>> \o Repeat(x, n - 1)

\* command lines with irregular white space
RawCommands ==
    {<<" ">>, <<" ", "\t">>, <<" ">> \o T_ls, T_ls \o <<"\t">> \o T_x,
     T_cd \o <<" ", " ">> \o T_s \o <<" ">>, <<"\t">> \o T_pwd}

Commands ==
    {JoinStrings(b \o Repeat(T_x, n), <<" ">>) : b \in BaseCommands, n \in 0..MaxExtraArgs}
        \cup RawCommands

\* working_dir arguments; <<>> is "not given"
WorkingDirs == {<<>>, P_tmp, P_o, P_missing, P_tmp_f, P_tmp_l, T_s}

\* arguments of IsDirectoryAllowed
DirectoryArgs == {<<>>, P_tmp, P_tmp_s, P_tmp2, P_o, P_h, <<"/", "v">> \o P_tmp}

NoEnv == <<>>

Request(op, command, workingDir) ==
    [op |-> op, command |-> command, workingDir |-> workingDir, env |-> NoEnv]

\* env arguments that are sent with a command
CallEnvs == {K_PATH :> P_sp, (K_A :> V_3) @@ (K_C :> V_3)}

NoRequest == Request("", <<>>, <<>>)

\* calls made on the executor and on the tool
Requests ==
    {Request(op, c, d) : op \in {"Execute", "command_exec"}, c \in Commands, d \in WorkingDirs}
        \cup {[Request(op, c, d) EXCEPT !.env = e] :
                 op \in {"Execute", "command_exec"},
                 c \in {T_echo, T_echo \o <<" ">> \o T_x, T_pwd},
                 d \in {<<>>, P_tmp}, e \in CallEnvs}
        \cup {Request("IsCommandAllowed", c, <<>>) : c \in Commands}
        \cup {Request("IsDirectoryAllowed", <<>>, d) : d \in DirectoryArgs}
        \cup {Request("GetAllowedCommands", <<>>, <<>>),
              Request("GetCurrentWorkingDir", <<>>, <<>>)}

\* calls made on the CommandExecutorServer
ServerRequests ==
    {Request("ExecuteCommand", c, <<>>) : c \in Commands}
        \cup {Request("ExecuteCommandInDir", c, d) : c \in Commands, d \in WorkingDirs}
        \cup {Request("GetCurrentWorkingDir", <<>>, <<>>)}

NoTool == NewToolResultText(NoContent)

\* what the caller holds after a call: the directory before the call, the
\* returned values, and what was run
Response(before, call, executed, tool, flag, list) ==
    [cwdBefore |-> before, result |-> call.result, err |-> call.err, proc |-> call.proc,
     executed |-> executed, tool |-> tool, flag |-> flag, list |-> list]

NoCall == Return(NoResult, Nil, <<>>, NoProc)

NoResponse == Response(<<>>, NoCall, FALSE, NoTool, FALSE, <<>>)

(* Inputs of buildEnvironment on its own *)

\* what os.Environ() returns: one with a PATH; one without, that sets A twice,
\* has "=" in a value and holds a string that is no assignment
EnvironLists ==
    {<<Entry(K_PATH, P_h), Entry(K_A, V_1), Entry(K_B, V_1)>>,
     <<Entry(K_A, V_1), <<"j">>, Entry(K_A, <<"1", "=", "1">>)>>}

\* command_exec.environment of the configuration file
ConfiguredEnvironments ==
    {NoMap, K_A :> V_2, (K_A :> V_2) @@ (K_PATH :> P_o), K_C :> V_2}

\* the env argument of a call
AdditionalEnvs ==
    {NoMap, K_A :> V_3, K_PATH :> P_tmp, (K_B :> V_3) @@ (K_C :> V_3)}

EnvironmentConfig(paths, behavior, environment) ==
    [CommandExec |-> [AllowedCommands |-> <<T_echo>>, DefaultWorkingDir |-> P_tmp,
                      AllowedDirs |-> <<>>, SearchPaths |-> paths,
                      PathBehavior |-> behavior, Environment |-> environment]]

EnvironmentStartups ==
    {<<EnvironmentConfig(paths, behavior, environment),
       [HOME |-> <<>>, PATH |-> <<>>, Environ |-> list]>> :
        paths \in {<<>>, <<P_sp, P_bin>>},
        behavior \in {"prepend", "append", "replace", ""},
        environment \in ConfiguredEnvironments,
        list \in EnvironLists}

-----------------------------------------------------------------------------
(* State machine *)

Init ==
    \E st \in Startups :
      \E e \in {newCommandExecutor(st[1], st[2])} :
        /\ cfg = st[1]
        /\ osEnv = st[2]
        /\ allowedCommands = e.allowedCommands
        /\ currentWorkingDir = e.currentWorkingDir
        /\ allowedDirs = e.allowedDirs
        /\ searchPaths = e.searchPaths
        /\ pathBehavior = e.pathBehavior
        /\ pc = "idle"
        /\ req = NoRequest
        /\ res = NoResponse

Fixed == <<cfg, osEnv, allowedCommands, allowedDirs, searchPaths, pathBehavior>>

\* a caller sends a request
Call ==
    /\ pc = "idle"
    /\ \E r \in Requests : req' = r
    /\ pc' = "called"
    /\ UNCHANGED <<Fixed, currentWorkingDir, res>>

\* the caller takes the response
Done ==
    /\ pc = "returned"
    /\ pc' = "idle"
    /\ req' = NoRequest
    /\ res' = NoResponse
    /\ UNCHANGED <<Fixed, currentWorkingDir>>

Handled(op) == pc = "called" /\ req.op = op /\ pc' = "returned" /\ UNCHANGED <<Fixed, req>>

DoExecute ==
    /\ Handled("Execute")
    /\ \E outcome \in ProcessOutcomes :
        \E call \in {Execute(req.command, [WorkingDir |-> req.workingDir, Env |-> req.env],
                             outcome)} :
           /\ currentWorkingDir' = call.cwd
           /\ res' = Response(currentWorkingDir, call, TRUE, NoTool, FALSE, <<>>)

DoCommandExecTool ==
    /\ Handled("command_exec")
    /\ \E outcome \in ProcessOutcomes :
        \E h \in {CommandExecHandler([command |-> req.command,
                                       working_dir |-> req.workingDir, env |-> req.env],
                                      outcome)} :
           /\ currentWorkingDir' = h.call.cwd
           /\ res' = Response(currentWorkingDir, h.call, h.executed, h.tool, FALSE, <<>>)

DoIsCommandAllowed ==
    /\ Handled("IsCommandAllowed")
    /\ res' = Response(currentWorkingDir, NoCall, FALSE, NoTool,
                       IsCommandAllowed(req.command), <<>>)
    /\ UNCHANGED currentWorkingDir

DoIsDirectoryAllowed ==
    /\ Handled("IsDirectoryAllowed")
    /\ res' = Response(currentWorkingDir, NoCall, FALSE, NoTool,
                       IsDirectoryAllowed(req.workingDir), <<>>)
    /\ UNCHANGED currentWorkingDir

DoGetAllowedCommands ==
    /\ Handled("GetAllowedCommands")
    /\ res' = Response(currentWorkingDir, NoCall, FALSE, NoTool, FALSE, GetAllowedCommands)
    /\ UNCHANGED currentWorkingDir

DoGetCurrentWorkingDir ==
    /\ Handled("GetCurrentWorkingDir")
    /\ res' = Response(currentWorkingDir, NoCall, FALSE, NoTool, FALSE, GetCurrentWorkingDir)
    /\ UNCHANGED currentWorkingDir

Next ==
    \/ Call
    \/ DoExecute
    \/ DoCommandExecTool
    \/ DoIsCommandAllowed
    \/ DoIsDirectoryAllowed
    \/ DoGetAllowedCommands
    \/ DoGetCurrentWorkingDir
    \/ Done

Spec == Init /\ [][Next]_vars

(* The CommandExecutorServer under the same callers *)

ServerCall ==
    /\ pc = "idle"
    /\ \E r \in ServerRequests : req' = r
    /\ pc' = "called"
    /\ UNCHANGED <<Fixed, currentWorkingDir, res>>

DoExecuteCommand ==
    /\ Handled("ExecuteCommand")
    /\ \E outcome \in ProcessOutcomes :
        \E call \in {ExecuteCommand(req.command, outcome)} :
           /\ currentWorkingDir' = call.cwd
           /\ res' = Response(currentWorkingDir, call, TRUE, NoTool, FALSE, <<>>)

DoExecuteCommandInDir ==
    /\ Handled("ExecuteCommandInDir")
    /\ \E outcome \in ProcessOutcomes :
        \E call \in {ExecuteCommandInDir(req.command, req.workingDir, outcome)} :
           /\ currentWorkingDir' = call.cwd
           /\ res' = Response(currentWorkingDir, call, TRUE, NoTool, FALSE, <<>>)

NextServer ==
    \/ ServerCall
    \/ DoExecuteCommand
    \/ DoExecuteCommandInDir
    \/ DoGetCurrentWorkingDir
    \/ Done

SpecServer == Init /\ [][NextServer]_vars

(* buildEnvironment on its own: an executor is constructed, and the        *)
(* environment of a child is built for the env argument of a call          *)

InitEnvironment ==
    \E st \in EnvironmentStartups :
      \E e \in {newCommandExecutor(st[1], st[2])} :
        /\ cfg = st[1]
        /\ osEnv = st[2]
        /\ allowedCommands = e.allowedCommands
        /\ currentWorkingDir = e.currentWorkingDir
        /\ allowedDirs = e.allowedDirs
        /\ searchPaths = e.searchPaths
        /\ pathBehavior = e.pathBehavior
        /\ pc = "idle"
        /\ req = NoRequest
        /\ res = NoResponse

EnvironmentCall ==
    /\ pc = "idle"
    /\ \E additionalEnv \in AdditionalEnvs :
          req' = [op |-> "buildEnvironment", env |-> additionalEnv]
    /\ pc' = "called"
    /\ UNCHANGED <<Fixed, currentWorkingDir, res>>

DoBuildEnvironment ==
    /\ Handled("buildEnvironment")
    /\ \E envMap \in {environmentMap(req.env)} :
        \E order \in IterationOrders(envMap) :
            res' = [env |-> buildEnvironment(req.env, order)]
    /\ UNCHANGED currentWorkingDir

NextEnvironment ==
    \/ EnvironmentCall
    \/ DoBuildEnvironment
    \/ Done

SpecEnvironment == InitEnvironment /\ [][NextEnvironment]_vars

(* Execute called by several goroutines on one commandExecutor.  The       *)
(* struct has no lock, so the reads and the writes of currentWorkingDir of  *)
(* different calls interleave; pc, req and res are per caller here.  A      *)
(* string is two words (data pointer, length) that are stored one after    *)
(* the other: between the two stores the field holds the data of one value  *)
(* with the length of the other.                                            *)

Callers == {"a", "b"}

ConcurrentStartups == {st \in Startups : st[1].CommandExec.AllowedDirs = <<P_tmp>>}

ConcurrentCommands ==
    {JoinStrings(<<T_cd, T_s>>, <<" ">>), JoinStrings(<<T_cd, P_tmp>>, <<" ">>),
     T_pwd, T_echo}

\* options.WorkingDir of the calls; <<>> is "not given"
ConcurrentWorkingDirs == {<<>>, P_tmp_s, P_o}

\* the locals of a call: the field when the call began, the directory it has
\* read, and what it returns
Locals(start, dir, call) == [start |-> start, dir |-> dir, call |-> call]

NoLocals == Locals(<<>>, <<>>, NoCall)

\* the string made of the data of one value and the length of another; what
\* lies behind the data is unknown
Torn(data, length) ==
    [i \in 1..Len(length) |-> IF i <= Len(data) THEN data[i] ELSE "?"]

ConcurrentInit ==
    \E st \in ConcurrentStartups :
      \E e \in {newCommandExecutor(st[1], st[2])} :
        /\ cfg = st[1]
        /\ osEnv = st[2]
        /\ allowedCommands = e.allowedCommands
        /\ currentWorkingDir = e.currentWorkingDir
        /\ allowedDirs = e.allowedDirs
        /\ searchPaths = e.searchPaths
        /\ pathBehavior = e.pathBehavior
        /\ pc = [p \in Callers |-> "idle"]
        /\ req = [p \in Callers |-> NoRequest]
        /\ res = [p \in Callers |-> NoLocals]

\* caller p moves from one place of Execute to another
Goes(p, from, to) ==
    /\ pc[p] = from
    /\ pc' = [pc EXCEPT ![p] = to]
    /\ UNCHANGED Fixed

\* Execute is entered with a command that has tokens, without a WorkingDir
\* or with one
Begin(p) ==
    /\ Goes(p, "idle", "called")
    /\ \E command \in ConcurrentCommands, dir \in ConcurrentWorkingDirs :
          req' = [req EXCEPT ![p] = Request("Execute", command, dir)]
    /\ res' = [res EXCEPT ![p] = Locals(currentWorkingDir, <<>>, NoCall)]
    /\ UNCHANGED currentWorkingDir

\* handleChangeDirectory up to the assignment of e.currentWorkingDir
ChangeResolve(p) ==
    /\ pc[p] = "called"
    /\ req[p].workingDir = <<>>
    /\ isChangeDirectoryCommand(req[p].command)
    /\ \E call \in {handleChangeDirectory(Fields(req[p].command))} :
          /\ res' = [res EXCEPT ![p].call = call]
          /\ pc' = [pc EXCEPT ![p] = IF call.err.isNil THEN "storing" ELSE "returned"]
    /\ UNCHANGED <<Fixed, req, currentWorkingDir>>

\* e.currentWorkingDir = newDir, the first word
ChangeStoreFirst(p) ==
    /\ Goes(p, "storing", "stored")
    /\ currentWorkingDir' \in {Torn(res[p].call.cwd, currentWorkingDir),
                               Torn(currentWorkingDir, res[p].call.cwd)}
    /\ UNCHANGED <<req, res>>

\* e.currentWorkingDir = newDir, the second word
ChangeStoreSecond(p) ==
    /\ Goes(p, "stored", "returned")
    /\ currentWorkingDir' = res[p].call.cwd
    /\ UNCHANGED <<req, res>>

\* the first read of e.currentWorkingDir by a call that is no cd
ReadDirectory(p) ==
    /\ Goes(p, "called", "read")
    /\ req[p].workingDir = <<>>
    /\ ~isChangeDirectoryCommand(req[p].command)
    /\ res' = [res EXCEPT ![p].dir = currentWorkingDir]
    /\ UNCHANGED <<req, currentWorkingDir>>

\* handlePrintWorkingDirectory: the second read, and the return
PrintFinish(p) ==
    /\ Goes(p, "read", "returned")
    /\ isPrintWorkingDirectoryCommand(req[p].command)
    /\ res' = [res EXCEPT ![p].call =
                  Return(CommandResult(T_pwd, res[p].dir, currentWorkingDir, <<>>, 0, <<>>),
                         Nil, currentWorkingDir, NoProc)]
    /\ UNCHANGED <<req, currentWorkingDir>>

\* executeCommand with the directory that was read
RunFinish(p) ==
    /\ Goes(p, "read", "returned")
    /\ ~isPrintWorkingDirectoryCommand(req[p].command)
    /\ \E outcome \in ProcessOutcomes :
        \E call \in {executeCommand(req[p].command, res[p].dir, NoEnv, outcome)} :
            res' = [res EXCEPT ![p].call = call]
    /\ UNCHANGED <<req, currentWorkingDir>>

\* executeInDirectory: the two checks of options.WorkingDir
ScopedCheck(p) ==
    /\ pc[p] = "called"
    /\ req[p].workingDir # <<>>
    /\ \E errMsg \in {directoryError(req[p].workingDir)} :
          IF errMsg # <<>>
          THEN /\ pc' = [pc EXCEPT ![p] = "returned"]
               /\ res' = [res EXCEPT ![p].call =
                             Failed(req[p].command, currentWorkingDir, errMsg,
                                    NewError(errMsg), currentWorkingDir)]
          ELSE /\ pc' = [pc EXCEPT ![p] = "checked"]
               /\ UNCHANGED res
    /\ UNCHANGED <<Fixed, req, currentWorkingDir>>

\* executeInDirectory after the checks: cd is refused, pwd is answered, a
\* program is run in options.WorkingDir
ScopedRun(p) ==
    /\ Goes(p, "checked", "returned")
    /\ \E outcome \in ProcessOutcomes :
        \E call \in {executeInCheckedDirectory(req[p].command, req[p].workingDir,
                                               NoEnv, outcome)} :
            res' = [res EXCEPT ![p].call = call]
    /\ UNCHANGED <<req, currentWorkingDir>>

\* the caller takes what Execute returned
Finish(p) ==
    /\ Goes(p, "returned", "idle")
    /\ req' = [req EXCEPT ![p] = NoRequest]
    /\ res' = [res EXCEPT ![p] = NoLocals]
    /\ UNCHANGED currentWorkingDir

ConcurrentNext ==
    \E p \in Callers :
        \/ Begin(p)
        \/ ChangeResolve(p)
        \/ ChangeStoreFirst(p)
        \/ ChangeStoreSecond(p)
        \/ ReadDirectory(p)
        \/ PrintFinish(p)
        \/ RunFinish(p)
        \/ ScopedCheck(p)
        \/ ScopedRun(p)
        \/ Finish(p)

SpecConcurrent == ConcurrentInit /\ [][ConcurrentNext]_vars

(* ExecuteCommandInDir, ExecuteCommand and GetCurrentWorkingDir called by    *)
(* several goroutines on one CommandExecutorServer, which has no lock        *)
(* either.  ExecuteCommandInDir stores to currentWorkingDir twice, each      *)
(* store in two words; the calls that only read the field are one step.      *)

\* directories given to ExecuteCommandInDir
ServerWorkingDirs == {P_tmp_s, P_tmp, P_o}

ServerConcurrentRequests ==
    {Request("ExecuteCommandInDir", c, d) : c \in {T_echo, T_pwd}, d \in ServerWorkingDirs}
        \cup {Request("ExecuteCommand", c, <<>>) : c \in {T_echo, T_pwd}}
        \cup {Request("GetCurrentWorkingDir", <<>>, <<>>)}

\* the locals of a call: originalWorkingDir, the directory that
\* GetCurrentWorkingDir returned, what the call returns, and whether an
\* ExecuteCommandInDir of another caller was under way when the field was read
ServerLocals(start, dir, call, during) ==
    [start |-> start, dir |-> dir, call |-> call, during |-> during]

\* caller p is in ExecuteCommandInDir, past the checks of the directory
InDir(p) == pc[p] \in {"checked", "entering", "entered", "ran", "restoring"}

OthersInDir(p) == \E q \in Callers \ {p} : InDir(q)

ServerBegin(p) ==
    /\ Goes(p, "idle", "called")
    /\ \E r \in ServerConcurrentRequests : req' = [req EXCEPT ![p] = r]
    /\ res' = [res EXCEPT ![p] = ServerLocals(<<>>, <<>>, NoCall, FALSE)]
    /\ UNCHANGED currentWorkingDir

\* ExecuteCommandInDir: the two checks of the directory, and
\* originalWorkingDir := s.currentWorkingDir
InDirCheck(p) ==
    /\ pc[p] = "called"
    /\ req[p].op = "ExecuteCommandInDir"
    /\ \E errMsg \in {directoryError(req[p].workingDir)} :
          IF errMsg # <<>>
          THEN /\ pc' = [pc EXCEPT ![p] = "returned"]
               /\ res' = [res EXCEPT ![p].call =
                             Failed(req[p].command, currentWorkingDir, errMsg,
                                    NewError(errMsg), currentWorkingDir)]
          ELSE /\ pc' = [pc EXCEPT ![p] = "checked"]
               /\ res' = [res EXCEPT ![p].start = currentWorkingDir]
    /\ UNCHANGED <<Fixed, req, currentWorkingDir>>

\* s.currentWorkingDir = workingDir, the first word
InDirEnterFirst(p) ==
    /\ Goes(p, "checked", "entering")
    /\ currentWorkingDir' \in {Torn(req[p].workingDir, currentWorkingDir),
                               Torn(currentWorkingDir, req[p].workingDir)}
    /\ UNCHANGED <<req, res>>

\* s.currentWorkingDir = workingDir, the second word
InDirEnterSecond(p) ==
    /\ Goes(p, "entering", "entered")
    /\ currentWorkingDir' = req[p].workingDir
    /\ UNCHANGED <<req, res>>

\* ExecuteCommandInDir from strings.Fields(command) to cmd.Run(): the returns
\* for an empty command, cd, pwd and an unresolved binary leave the function
\* here; after cmd.Run() the directory is still to be put back
InDirRun(p) ==
    /\ pc[p] = "entered"
    /\ \E outcome \in ProcessOutcomes :
        \E call \in {ExecuteCommandInDir(req[p].command, req[p].workingDir, outcome)} :
            /\ res' = [res EXCEPT ![p].call = call]
            /\ pc' = [pc EXCEPT ![p] = IF call.proc # NoProc THEN "ran" ELSE "returned"]
    /\ UNCHANGED <<Fixed, req, currentWorkingDir>>

\* s.currentWorkingDir = originalWorkingDir, the first word
InDirRestoreFirst(p) ==
    /\ Goes(p, "ran", "restoring")
    /\ currentWorkingDir' \in {Torn(res[p].start, currentWorkingDir),
                               Torn(currentWorkingDir, res[p].start)}
    /\ UNCHANGED <<req, res>>

\* s.currentWorkingDir = originalWorkingDir, the second word
InDirRestoreSecond(p) ==
    /\ Goes(p, "restoring", "returned")
    /\ currentWorkingDir' = res[p].start
    /\ UNCHANGED <<req, res>>

\* ExecuteCommand with pwd or a program
ServerAmbient(p) ==
    /\ Goes(p, "called", "returned")
    /\ req[p].op = "ExecuteCommand"
    /\ \E outcome \in ProcessOutcomes :
        \E call \in {ExecuteCommand(req[p].command, outcome)} :
            res' = [res EXCEPT ![p].call = call, ![p].during = OthersInDir(p)]
    /\ UNCHANGED <<req, currentWorkingDir>>

ServerGetCurrentWorkingDir(p) ==
    /\ Goes(p, "called", "returned")
    /\ req[p].op = "GetCurrentWorkingDir"
    /\ res' = [res EXCEPT ![p].dir = GetCurrentWorkingDir, ![p].during = OthersInDir(p)]
    /\ UNCHANGED <<req, currentWorkingDir>>

ServerConcurrentNext ==
    \E p \in Callers :
        \/ ServerBegin(p)
        \/ InDirCheck(p)
        \/ InDirEnterFirst(p)
        \/ InDirEnterSecond(p)
        \/ InDirRun(p)
        \/ InDirRestoreFirst(p)
        \/ InDirRestoreSecond(p)
        \/ ServerAmbient(p)
        \/ ServerGetCurrentWorkingDir(p)
        \/ Finish(p)

SpecServerConcurrent == ConcurrentInit /\ [][ServerConcurrentNext]_vars

-----------------------------------------------------------------------------
(* Properties *)

Range(seq) == {seq[i] : i \in 1..Len(seq)}

\* s holds a character that is not white space
HasToken(s) == \E i \in 1..Len(s) : s[i] \notin WhiteSpace

\* t is the first maximal run of non-white-space characters of s
IsFirstToken(s, t) ==
    \E i \in 1..Len(s) : \E j \in i..Len(s) :
        /\ \A k \in 1..(i - 1) : s[k] \in WhiteSpace
        /\ \A k \in i..j : s[k] \notin WhiteSpace
        /\ j = Len(s) \/ s[j + 1] \in WhiteSpace
        /\ t = SubSeq(s, i, j)

FirstTokenAllowed(s) == \E a \in Range(allowedCommands) : IsFirstToken(s, a)

Returned(op) == pc = "returned" /\ req.op = op

\* Execute has returned, called directly or by the tool handler
Executed == pc = "returned" /\ req.op \in {"Execute", "command_exec"} /\ res.executed

Scoped == req.workingDir # <<>>

\* the override directory exists, is a directory and passes the guard
ValidOverride ==
    /\ ResolvePath(req.workingDir).err = ""
    /\ ResolvePath(req.workingDir).path \in Directories
    /\ IsDirectoryAllowed(req.workingDir)

CdUnsupported == <<"cd command is not supported when using a temporary working directory">>

Cmd_lsof == JoinStrings(<<T_lsof, <<"-", "p">>, <<"1">>>>, <<" ">>)
Cmd_lsrm == JoinStrings(<<T_lsrm, <<"-", "r", "f">>>>, <<" ">>)

\* C1: IsCommandAllowed(command) is true exactly when the command has a first
\* white-space-delimited token and that token equals a member of the allowlist;
\* so it is false for "", for white space only, and for "lsof -p 1" and
\* "ls;rm -rf" when only "ls" of these names is allowed.
C1_AllowlistExactToken ==
    Returned("IsCommandAllowed") =>
        /\ res.flag <=> (HasToken(req.command) /\ FirstTokenAllowed(req.command))
        /\ ~HasToken(req.command) => ~res.flag
        /\ (req.command \in {Cmd_lsof, Cmd_lsrm}
              /\ T_lsof \notin Range(allowedCommands)
              /\ T_lsrm \notin Range(allowedCommands)) => ~res.flag

C1_Witness ==
    /\ Returned("IsCommandAllowed")
    /\ req.command = Cmd_lsof
    /\ T_ls \in Range(allowedCommands)
    /\ ~res.flag

\* C2: in the command_exec handler the allowlist check precedes execution: a
\* request whose command is empty or whose first token is not allowed gets an
\* error result ("empty command provided" / "command not allowed"), Execute is
\* not called, nothing is run and the working directory is unchanged; whatever a
\* tool call runs is for an allowed program token.
C2_ToolChecksAllowlistFirst ==
    Returned("command_exec") =>
        /\ (req.command = <<>> \/ ~FirstTokenAllowed(req.command)) =>
              /\ res.tool.IsError
              /\ res.tool.Text = IF req.command = <<>>
                                 THEN <<"empty command provided">>
                                 ELSE <<"command not allowed: ">> \o req.command
              /\ ~res.executed
              /\ res.proc = NoProc
              /\ currentWorkingDir = res.cwdBefore
        /\ res.proc # NoProc => FirstTokenAllowed(req.command)

C2_Witness ==
    /\ Returned("command_exec")
    /\ req.command = Cmd_lsof
    /\ T_ls \in Range(allowedCommands)
    /\ res.tool.IsError
    /\ ~res.executed

\* C3: an Execute with a non-empty options.WorkingDir never writes
\* currentWorkingDir, whatever the command and the override directory are.
C3_ScopedCallKeepsWorkingDir ==
    (Executed /\ Scoped) => currentWorkingDir = res.cwdBefore

C3_Witness ==
    /\ Executed /\ Scoped
    /\ res.proc # NoProc
    /\ res.proc.dir # res.cwdBefore
    /\ res.err.isNil

\* C4 (as claimed): ExecuteCommandInDir of the server package with a non-empty
\* workingDir leaves currentWorkingDir as it was before the call, on every
\* return path.
C4_InDirRestoresWorkingDir ==
    (Returned("ExecuteCommandInDir") /\ Scoped) => currentWorkingDir = res.cwdBefore

\* C5: currentWorkingDir is written only by a successful cd on the ambient
\* path; every other operation leaves it unchanged.
C5_OnlyAmbientCdWrites ==
    (pc = "returned" /\ currentWorkingDir # res.cwdBefore) =>
        /\ Executed
        /\ ~Scoped
        /\ IsFirstToken(req.command, T_cd)
        /\ res.err.isNil
        /\ res.result.ExitCode = 0

C5_Witness ==
    /\ Executed /\ ~Scoped
    /\ IsFirstToken(req.command, T_cd)
    /\ ~res.err.isNil
    /\ res.result.Error = <<"Access to directory not allowed: ">> \o P_o
    /\ currentWorkingDir = res.cwdBefore

\* C6: currentWorkingDir is never empty, from construction on.
C6_WorkingDirNonEmpty == currentWorkingDir # <<>>

C6_Witness ==
    /\ cfg.CommandExec.DefaultWorkingDir = <<>>
    /\ osEnv.HOME = <<>>
    /\ Executed
    /\ IsFirstToken(req.command, T_cd)
    /\ currentWorkingDir # res.cwdBefore

C8_InvalidOverrideFails ==
    (Executed /\ Scoped) =>
        /\ ~ValidOverride =>
              /\ res.result.ExitCode = 1
              /\ res.result.Error # <<>>
              /\ ~res.err.isNil
              /\ res.proc = NoProc
              /\ currentWorkingDir = res.cwdBefore
        /\ res.proc # NoProc => ValidOverride

C8_Witness ==
    /\ Executed /\ Scoped
    /\ req.workingDir = P_o
    /\ ~IsDirectoryAllowed(P_o)
    /\ IsFirstToken(req.command, T_echo)
    /\ res.result.Error = <<"Access to directory not allowed: ">> \o P_o

\* C9: pwd runs nothing and succeeds with ExitCode 0, empty Error and nil
\* error; Stdout and WorkingDir are the effective directory: currentWorkingDir
\* on the ambient path, a valid override on the scoped path.
C9_PwdReportsEffectiveDir ==
    (Executed /\ IsFirstToken(req.command, T_pwd) /\ (Scoped => ValidOverride)) =>
        /\ res.proc = NoProc
        /\ res.result.ExitCode = 0
        /\ res.result.Error = <<>>
        /\ res.err.isNil
        /\ res.result.Stdout = IF Scoped THEN req.workingDir ELSE res.cwdBefore
        /\ res.result.WorkingDir = res.result.Stdout

C9_Witness ==
    /\ Executed /\ Scoped /\ ValidOverride
    /\ IsFirstToken(req.command, T_pwd)
    /\ req.workingDir # res.cwdBefore
    /\ res.result.Stdout = req.workingDir

\* C10: a successful ambient cd with a relative argument goes to the argument
\* joined to the currentWorkingDir of that moment (not to the process's own
\* directory, nor to the configured one); an absolute argument is not joined
\* to anything.  Either way symbolic links are then resolved.
C10_RelativeCdJoinsWorkingDir ==
    (Executed /\ ~Scoped /\ IsFirstToken(req.command, T_cd)
        /\ Len(Fields(req.command)) >= 2 /\ res.err.isNil) =>
        /\ currentWorkingDir =
              IF IsAbs(Fields(req.command)[2])
              THEN EvalSymlinks(Fields(req.command)[2]).path
              ELSE EvalSymlinks(Join(res.cwdBefore, Fields(req.command)[2])).path
        /\ Fields(req.command)[2] = T_s =>
              currentWorkingDir = res.cwdBefore \o Slash \o T_s
        /\ Fields(req.command)[2] = P_tmp => currentWorkingDir = P_tmp

C10_Witness ==
    /\ Executed /\ ~Scoped
    /\ Fields(req.command) = <<T_cd, T_s>>
    /\ res.err.isNil
    /\ res.cwdBefore \notin {ProcessDir, initialWorkingDir(cfg, osEnv)}
    /\ currentWorkingDir = res.cwdBefore \o Slash \o T_s

\* a directory change on the ambient path has succeeded
CdSucceeded ==
    Executed /\ ~Scoped /\ IsFirstToken(req.command, T_cd) /\ res.err.isNil

\* C11: a successful ambient cd makes the directory it reports the working
\* directory, and from then until the next successful cd every call leaves
\* it there (scoped calls and failed calls included) and observes it:
\* GetCurrentWorkingDir returns it, an ambient pwd prints it, an ambient
\* command is run with it as the child's directory and reports it.
C11_DirectoryPersistsUntilNextCd ==
    [][/\ (pc = "called" /\ pc' = "returned") =>
            /\ IF CdSucceeded'
               THEN currentWorkingDir' = res'.result.WorkingDir
               ELSE currentWorkingDir' = currentWorkingDir
            /\ req.op = "GetCurrentWorkingDir" => res'.list = currentWorkingDir
            /\ (Executed' /\ ~Scoped' /\ IsFirstToken(req.command, T_pwd)) =>
                  res'.result.Stdout = currentWorkingDir
            /\ (Executed' /\ ~Scoped' /\ res'.proc # NoProc) =>
                  /\ res'.proc.dir = currentWorkingDir
                  /\ res'.result.WorkingDir = currentWorkingDir
       /\ ~(pc = "called" /\ pc' = "returned") => currentWorkingDir' = currentWorkingDir
      ]_vars

C11_Witness ==
    /\ Executed /\ ~Scoped
    /\ res.proc # NoProc
    /\ res.proc.dir = P_tmp_s
    /\ res.result.WorkingDir = P_tmp_s
    /\ currentWorkingDir # initialWorkingDir(cfg, osEnv)

\* C12: in every result of Execute the three failure signs agree: Error is
\* non-empty, the returned error is non-nil, ExitCode is non-zero.  They are
\* set for a command without tokens, a rejected override directory, a scoped
\* cd and a command for which nothing was run; they are clear for a pwd that
\* is answered.
C12_FailureSignsAgree ==
    Executed =>
        /\ (res.result.Error # <<>>) <=> ~res.err.isNil
        /\ ~res.err.isNil <=> (res.result.ExitCode # 0)
        /\ (~HasToken(req.command)
              \/ (Scoped /\ ~ValidOverride)
              \/ (Scoped /\ IsFirstToken(req.command, T_cd))) => ~res.err.isNil
        /\ (res.proc = NoProc
              /\ ~IsFirstToken(req.command, T_cd)
              /\ ~IsFirstToken(req.command, T_pwd)) => ~res.err.isNil
        /\ (IsFirstToken(req.command, T_pwd) /\ (Scoped => ValidOverride)) => res.err.isNil

C12_Witness ==
    /\ Executed
    /\ res.proc # NoProc
    /\ res.result.ExitCode = 2
    /\ res.result.Error = <<"exit status 2">>
    /\ ~res.err.isNil

\* the program-name token of the request
ProgramName == Fields(req.command)[1]

\* Execute has returned from a call in which the binary was looked up
Resolved ==
    /\ Executed /\ HasToken(req.command)
    /\ ~IsFirstToken(req.command, T_cd)
    /\ ~IsFirstToken(req.command, T_pwd)
    /\ Scoped => ValidOverride

\* path names a file that exists, is not a directory and is executable
Qualifies(path) ==
    /\ ResolvePath(path).err = ""
    /\ ResolvePath(path).path \in ExecutableFiles

\* the configured search directories, by position, in which name qualifies
SearchHits(name) ==
    {i \in 1..Len(searchPaths) : Qualifies(Join(searchPaths[i], name))}

SystemDirs == Range(SplitList(osEnv.PATH))

\* C13: a program name that is not an absolute path is looked up in the
\* configured searchPaths, in their order, before the system PATH, under every
\* pathBehavior: what is run is the name joined to the first search directory
\* in which it exists, is no directory and is executable; a file found through
\* the system PATH is run only when no search directory qualifies.
C13_SearchPathsFirstInOrder ==
    (Resolved /\ ~IsAbs(ProgramName)) =>
        IF SearchHits(ProgramName) # {}
        THEN \E i \in SearchHits(ProgramName) :
                /\ \A j \in SearchHits(ProgramName) : i <= j
                /\ res.proc.path = Join(searchPaths[i], ProgramName)
        ELSE res.proc # NoProc =>
                \E d \in SystemDirs :
                    /\ res.proc.path = Join(d, ProgramName)
                    /\ Qualifies(res.proc.path)

C13_Witness ==
    /\ Resolved
    /\ ProgramName = T_echo
    /\ pathBehavior = "append"
    /\ Qualifies(P_bin_echo) /\ P_bin \in SystemDirs
    /\ searchPaths = <<P_sp, P_bin>>
    /\ res.proc.path = P_sp \o Slash \o T_echo

\* a later search directory wins when an earlier one holds the name as a
\* file that is not executable
C13_WitnessSkip ==
    /\ Resolved
    /\ ProgramName = T_ls
    /\ searchPaths = <<P_sp, P_bin>>
    /\ res.proc.path = P_bin \o Slash \o T_ls

CommandNotFound(name) == <<"command not found: ">> \o name

\* nothing was run and the result is the given failure
FailedWith(message) ==
    /\ res.proc = NoProc
    /\ res.result.Error = message
    /\ res.result.ExitCode = 1
    /\ ~res.err.isNil
    /\ res.err.msg = message

\* C14: when no configured search directory holds the (non-absolute) program
\* name as an executable file, pathBehavior "replace" gives "command not
\* found" and nothing is run, even if the program is on the system PATH; with
\* "prepend" or "append" the program is taken from the system PATH if it is
\* there.
C14_ReplaceDisablesSystemPath ==
    (Resolved /\ ~IsAbs(ProgramName) /\ SearchHits(ProgramName) = {}) =>
        IF pathBehavior = "replace"
        THEN FailedWith(CommandNotFound(ProgramName))
        ELSE IF \E d \in SystemDirs : Qualifies(Join(d, ProgramName))
             THEN /\ res.proc # NoProc
                  /\ \E d \in SystemDirs : res.proc.path = Join(d, ProgramName)
             ELSE FailedWith(CommandNotFound(ProgramName))

C14_Witness ==
    /\ Resolved
    /\ pathBehavior = "replace"
    /\ ProgramName = T_ls
    /\ SearchHits(T_ls) = {}
    /\ \E d \in SystemDirs : Qualifies(Join(d, T_ls))
    /\ FailedWith(CommandNotFound(T_ls))

\* C15: a program name that is an absolute path is not looked up anywhere,
\* whatever searchPaths and pathBehavior are: it is run as it is written if it
\* exists, is no directory and is executable; "command not found" if it does
\* not exist; "not executable" if it is a directory or has no execute bit.
C15_AbsoluteNameNotSearched ==
    (Resolved /\ IsAbs(ProgramName)) =>
        IF ResolvePath(ProgramName).err # ""
        THEN FailedWith(CommandNotFound(ProgramName))
        ELSE IF ResolvePath(ProgramName).path \notin ExecutableFiles
             THEN FailedWith(<<"not executable: ">> \o ProgramName)
             ELSE /\ res.proc # NoProc
                  /\ res.proc.path = ProgramName

C15_Witness ==
    /\ Resolved
    /\ ProgramName = P_bin_echo
    /\ pathBehavior = "replace"
    /\ P_bin \notin Range(searchPaths)
    /\ res.proc.path = P_bin_echo

C15_WitnessNotExecutable ==
    /\ Resolved
    /\ ProgramName \in {P_tmp, P_bin \o Slash \o T_noexec}
    /\ FailedWith(<<"not executable: ">> \o ProgramName)

\* buildEnvironment has returned
Built == pc = "returned" /\ req.op = "buildEnvironment"

\* the entries of the inherited environment that assign k
InheritedEntries(k) ==
    {i \in 1..Len(osEnv.Environ) : HasPrefix(osEnv.Environ[i], k \o <<"=">>)}

InheritedKeys == {k \in {K_PATH, K_A, K_B, K_C} : InheritedEntries(k) # {}}

\* the value the inherited environment gives k: that of its last assignment
InheritedValue(k) ==
    LET last == CHOOSE i \in InheritedEntries(k) : \A j \in InheritedEntries(k) : j <= i
    IN  SubSeq(osEnv.Environ[last], Len(k) + 2, Len(osEnv.Environ[last]))

LayerKeys == InheritedKeys \cup DOMAIN cfg.CommandExec.Environment \cup DOMAIN req.env

\* the value of k by precedence: per-call, then configured, then inherited
LayerValue(k) ==
    IF k \in DOMAIN req.env THEN req.env[k]
    ELSE IF k \in DOMAIN cfg.CommandExec.Environment THEN cfg.CommandExec.Environment[k]
    ELSE InheritedValue(k)

\* the entries of the built environment that assign k
BuiltEntries(k) == {i \in 1..Len(res.env) : HasPrefix(res.env[i], k \o <<"=">>)}

\* C16 (as claimed): every key of the inherited, the configured or the
\* per-call environment has exactly one KEY=VALUE entry in the built
\* environment, and its value is the per-call one, else the configured one,
\* else the inherited one.
C16_LayerPrecedenceAllKeys ==
    Built => \A k \in LayerKeys :
        /\ Cardinality(BuiltEntries(k)) = 1
        /\ \A i \in BuiltEntries(k) : res.env[i] = Entry(k, LayerValue(k))

\* C16 (amended): every key of the three layers has exactly one entry; its
\* value is the per-call one, else the configured one, else the inherited
\* one, for every key except PATH when searchPaths is not empty (PATH is then
\* rewritten from searchPaths and loses the per-call value under "replace").
C16_LayerPrecedence ==
    Built => \A k \in LayerKeys :
        /\ Cardinality(BuiltEntries(k)) = 1
        /\ (k # K_PATH \/ Len(searchPaths) = 0) =>
              \A i \in BuiltEntries(k) : res.env[i] = Entry(k, LayerValue(k))

C16_Witness ==
    /\ Built
    /\ K_A \in InheritedKeys
    /\ K_A \in DOMAIN cfg.CommandExec.Environment
    /\ K_A \in DOMAIN req.env
    /\ \E i \in 1..Len(res.env) : res.env[i] = Entry(K_A, V_3)
    /\ \E i \in 1..Len(res.env) : res.env[i] = Entry(K_B, V_1)

\* the value PATH has after the configured and the per-call variables were
\* applied ("" if none of the three layers sets it)
OverlaidPath == IF K_PATH \in LayerKeys THEN LayerValue(K_PATH) ELSE <<>>

\* the two configured search directories, joined by the list separator
SearchPathList == searchPaths[1] \o <<":">> \o searchPaths[2]

\* C17: with searchPaths = [A,B] the PATH entry of the built environment is
\* A:B:C under "prepend", C:A:B under "append" and A:B under "replace", where
\* C is the value of PATH after the overlays; with searchPaths empty PATH is
\* as the overlays left it (absent if no layer sets it), under every policy.
C17_PathMerge ==
    Built =>
        IF Len(searchPaths) = 2
        THEN /\ Cardinality(BuiltEntries(K_PATH)) = 1
             /\ \A i \in BuiltEntries(K_PATH) :
                   res.env[i] = Entry(K_PATH,
                       CASE pathBehavior = "prepend" -> SearchPathList \o <<":">> \o OverlaidPath
                         [] pathBehavior = "append" -> OverlaidPath \o <<":">> \o SearchPathList
                         [] pathBehavior = "replace" -> SearchPathList)
        ELSE /\ Len(searchPaths) = 0
             /\ IF K_PATH \in LayerKeys
                THEN /\ Cardinality(BuiltEntries(K_PATH)) = 1
                     /\ \A i \in BuiltEntries(K_PATH) :
                           res.env[i] = Entry(K_PATH, OverlaidPath)
                ELSE BuiltEntries(K_PATH) = {}

C17_Witness ==
    /\ Built
    /\ pathBehavior = "replace"
    /\ searchPaths = <<P_sp, P_bin>>
    /\ K_PATH \in InheritedKeys
    /\ req.env = K_PATH :> P_tmp
    /\ \E i \in 1..Len(res.env) : res.env[i] = Entry(K_PATH, P_sp \o <<":">> \o P_bin)

C17_WitnessAppend ==
    /\ Built
    /\ pathBehavior = "append"
    /\ searchPaths = <<P_sp, P_bin>>
    /\ \E i \in 1..Len(res.env) :
          res.env[i] = Entry(K_PATH, P_h \o <<":">> \o P_sp \o <<":">> \o P_bin)

\* a is a literal prefix of s, character by character
StartsWith(s, a) == Len(a) <= Len(s) /\ \A i \in 1..Len(a) : s[i] = a[i]

P_v_tmp == <<"/", "v">> \o P_tmp

\* C18: IsDirectoryAllowed(path) is true for every path when allowedDirs is
\* empty; otherwise it is true exactly when some entry of allowedDirs is a
\* literal string prefix of path, path segments playing no part: with only
\* /tmp allowed, /tmp2 and /tmp/s are accepted and /v/tmp is rejected.
C18_DirectoryGuardLiteralPrefix ==
    Returned("IsDirectoryAllowed") =>
        /\ res.flag <=>
              (Len(allowedDirs) = 0
                 \/ \E a \in Range(allowedDirs) : StartsWith(req.workingDir, a))
        /\ Len(allowedDirs) = 0 => res.flag
        /\ allowedDirs = <<P_tmp>> =>
              /\ req.workingDir \in {P_tmp, P_tmp2, P_tmp_s} => res.flag
              /\ req.workingDir \in {P_v_tmp, P_o, P_h, <<>>} => ~res.flag

C18_Witness ==
    /\ Returned("IsDirectoryAllowed")
    /\ allowedDirs = <<P_tmp>>
    /\ req.workingDir = P_tmp2
    /\ res.flag

C18_WitnessRejected ==
    /\ Returned("IsDirectoryAllowed")
    /\ allowedDirs = <<P_tmp>>
    /\ req.workingDir = P_v_tmp
    /\ ~res.flag

\* C19: Execute of a command without tokens (empty or white space only),
\* with or without an override directory, returns ExitCode 1, Error "empty
\* command", the ambient working directory as WorkingDir and a non-nil
\* error; the override directory is not checked, nothing is run and
\* currentWorkingDir is unchanged.
C19_EmptyCommand ==
    (Executed /\ ~HasToken(req.command)) =>
        /\ FailedWith(<<"empty command">>)
        /\ res.result.Command = req.command
        /\ res.result.WorkingDir = res.cwdBefore
        /\ res.result.Stdout = <<>>
        /\ currentWorkingDir = res.cwdBefore

C19_Witness ==
    /\ Executed /\ Scoped /\ ~ValidOverride
    /\ req.command = <<" ", "\t">>
    /\ req.workingDir = P_missing
    /\ FailedWith(<<"empty command">>)
    /\ res.result.WorkingDir = currentWorkingDir

\* C20 (as claimed): when several Execute calls run at once on one executor,
\* every ambient command that is no cd runs in, and reports, the directory
\* that was current when its call began: no cd of another call takes effect
\* between the start of the call and its use of the directory.
C20_AmbientCallsSerialized ==
    \A p \in Callers :
        (pc[p] = "returned" /\ req[p].workingDir = <<>>
            /\ ~IsFirstToken(req[p].command, T_cd)) =>
            /\ res[p].call.result.WorkingDir = res[p].start
            /\ res[p].call.proc # NoProc => res[p].call.proc.dir = res[p].start
            /\ IsFirstToken(req[p].command, T_pwd) =>
                  res[p].call.result.Stdout = res[p].start

\* the directories of the server process's PATH, in order
SystemPath == SplitList(osEnv.PATH)

\* the positions of SystemPath at which name qualifies
SystemHits(name) == {i \in 1..Len(SystemPath) : Qualifies(Join(SystemPath[i], name))}

Least(S) == CHOOSE i \in S : \A j \in S : i <= j

ResolvedTo(path) == [path |-> path, error |-> <<>>]
Unresolved(message) == [path |-> <<>>, error |-> message]

\* what the lookup of a program name gives, from the name, searchPaths,
\* pathBehavior, the PATH of the server process and the file system alone
ResolutionUnder(behavior, name) ==
    IF IsAbs(name)
    THEN IF ResolvePath(name).err # "" THEN Unresolved(CommandNotFound(name))
         ELSE IF ResolvePath(name).path \notin ExecutableFiles
              THEN Unresolved(<<"not executable: ">> \o name)
              ELSE ResolvedTo(name)
    ELSE IF SearchHits(name) # {}
         THEN ResolvedTo(Join(searchPaths[Least(SearchHits(name))], name))
         ELSE IF behavior # "replace" /\ SystemHits(name) # {}
              THEN ResolvedTo(Join(SystemPath[Least(SystemHits(name))], name))
              ELSE Unresolved(CommandNotFound(name))

Resolution(name) == ResolutionUnder(pathBehavior, name)

\* what the lookup made by the call that returned gave
LookedUp ==
    IF res.proc # NoProc THEN ResolvedTo(res.proc.path)
    ELSE Unresolved(res.result.Error)

\* C21: the lookup of the binary is a function of the first token of the
\* command, searchPaths, pathBehavior and the file system (with the PATH of the
\* server process, which does not change): whatever currentWorkingDir is,
\* whatever the override directory, the arguments after the first token and
\* the per-call environment are, and whatever calls were made before, the
\* path that is run, or the error of the lookup, is the one that the first
\* token has under the configuration.
C21_ResolveDeterministic ==
    Resolved => LookedUp = Resolution(ProgramName)

\* echo with an argument and a per-call PATH that names another directory,
\* after cd has moved the session: still the echo of the system PATH
C21_Witness ==
    /\ Resolved
    /\ ProgramName = T_echo /\ req.command # T_echo
    /\ K_PATH \in DOMAIN req.env /\ req.env[K_PATH] = P_sp
    /\ searchPaths = <<>>
    /\ currentWorkingDir # cfg.CommandExec.DefaultWorkingDir
    /\ LookedUp = ResolvedTo(P_bin_echo)

Cmd_meta == JoinStrings(<<T_echo, <<"a", ";">>, <<"|">>, <<"&", "&">>, T_ls>>, <<" ">>)

\* the entries of a list of KEY=VALUE strings
Entries(list) == {list[i] : i \in 1..Len(list)}

\* C22: Execute starts at most one process and no shell.  When it starts one,
\* the call is one whose binary was looked up; the executable is the path the
\* lookup gives for the first token; the arguments are the remaining tokens
\* of the command line, in order and as written (";", "|" and "&&" are
\* ordinary characters); the directory of the process is the effective
\* directory, which the result reports as WorkingDir; and the environment
\* holds the strings buildEnvironment returns for the env of the call.
C22_OneProcessNoShell ==
    (Executed /\ res.proc # NoProc) =>
        /\ Resolved
        /\ res.proc.path = Resolution(ProgramName).path
        /\ res.proc.args = Tail(Fields(req.command))
        /\ res.proc.dir = (IF Scoped THEN req.workingDir ELSE res.cwdBefore)
        /\ res.proc.dir = res.result.WorkingDir
        /\ \A order \in IterationOrders(environmentMap(req.env)) :
              res.proc.env = Entries(buildEnvironment(req.env, order))

C22_Witness ==
    /\ Executed /\ Scoped
    /\ req.command = Cmd_meta
    /\ res.proc.path = P_bin_echo
    /\ res.proc.args = <<<<"a", ";">>, <<"|">>, <<"&", "&">>, T_ls>>
    /\ res.proc.dir = P_tmp /\ res.cwdBefore # P_tmp

\* the per-call variables reach the child, over the configured ones
C22_WitnessEnv ==
    /\ Executed
    /\ res.proc # NoProc
    /\ K_C \in DOMAIN cfg.CommandExec.Environment
    /\ K_C \in DOMAIN req.env
    /\ Entry(K_C, V_3) \in res.proc.env
    /\ Entry(K_C, V_2) \notin res.proc.env

PathBehaviors == {"prepend", "append", "replace"}

\* path_behavior values that are none of the three
UnrecognizedBehaviors == {"", "merge", "Prepend"}

WithBehavior(c, behavior) == [c EXCEPT !.CommandExec.PathBehavior = behavior]

\* the PATH the overlaid environment of the call holds before the merge
BasePath ==
    IF K_PATH \in DOMAIN req.env THEN req.env[K_PATH]
    ELSE IF K_PATH \in DOMAIN cfg.CommandExec.Environment
         THEN cfg.CommandExec.Environment[K_PATH]
         ELSE osEnv.PATH

\* C23: pathBehavior is always "prepend", "append" or "replace".  It is the
\* configured value if that is one of the three and "prepend" otherwise (the
\* empty string included), from construction on; an executor constructed
\* with an unrecognized value has the fields of one constructed with
\* "prepend", and it looks binaries up and builds the PATH of a child as
\* "prepend" does.
C23_PathBehaviorCoerced ==
    /\ pathBehavior \in PathBehaviors
    /\ pathBehavior = (IF cfg.CommandExec.PathBehavior \in PathBehaviors
                       THEN cfg.CommandExec.PathBehavior ELSE "prepend")
    /\ \A b \in UnrecognizedBehaviors :
          newCommandExecutor(WithBehavior(cfg, b), osEnv)
              = newCommandExecutor(WithBehavior(cfg, "prepend"), osEnv)
    /\ (Resolved /\ cfg.CommandExec.PathBehavior \notin PathBehaviors) =>
          /\ LookedUp = ResolutionUnder("prepend", ProgramName)
          /\ (res.proc # NoProc /\ searchPaths # <<>>) =>
                Entry(K_PATH, JoinStrings(searchPaths, PathListSeparator)
                                \o PathListSeparator \o BasePath) \in res.proc.env

\* configured with "": ls is not executable in the search directory and is
\* taken from the system PATH, which "replace" would not do; the child's PATH
\* is the search directory followed by the inherited PATH
C23_Witness ==
    /\ Resolved
    /\ cfg.CommandExec.PathBehavior = ""
    /\ pathBehavior = "prepend"
    /\ ProgramName = T_ls
    /\ SearchHits(T_ls) = {}
    /\ res.proc.path = P_bin \o Slash \o T_ls
    /\ Entry(K_PATH, P_sp \o PathListSeparator \o P_bin) \in res.proc.env

\* C24: when the process that was started fails, ExitCode is the exit code
\* of the process if it exited with one and 1 if it could not be started,
\* Error is the message of the failure, the Stdout and Stderr that were
\* captured are in the result, and the returned error is non-nil with the same
\* message.  When the binary cannot be resolved nothing is started and
\* ExitCode is 1.
C24_ProcessFailure ==
    /\ (Executed /\ res.proc # NoProc /\ res.proc.state.kind # "ok") =>
          /\ res.result.ExitCode =
                (IF res.proc.state.kind = "exit" THEN res.proc.state.code ELSE 1)
          /\ res.result.Error = res.proc.state.msg
          /\ res.result.Error # <<>>
          /\ res.result.Stdout = res.proc.state.stdout
          /\ res.result.Stderr = res.proc.state.stderr
          /\ ~res.err.isNil
          /\ res.err.msg = res.proc.state.msg
    /\ (Resolved /\ Resolution(ProgramName).error # <<>>) =>
          /\ res.proc = NoProc
          /\ res.result.ExitCode = 1
          /\ ~res.err.isNil

\* a child that wrote to both streams and exited with status 2
C24_Witness ==
    /\ Executed
    /\ res.proc.state.kind = "exit"
    /\ res.proc.state.code = 2
    /\ res.result.ExitCode = 2
    /\ res.result.Stdout = <<"o">>
    /\ res.result.Stderr = <<"e">>

\* a child that could not be started
C24_WitnessNotStarted ==
    /\ Executed
    /\ res.proc.state.kind = "nostart"
    /\ res.result.ExitCode = 1
    /\ res.result.Error = <<"fork/exec failed">>

\* a binary that is not found
C24_WitnessUnresolved ==
    /\ Resolved
    /\ ProgramName = T_nosuch
    /\ res.result.ExitCode = 1
    /\ res.proc = NoProc

\* the override directory of the scoped call that returned was accepted
OverrideAccepted ==
    /\ res.result.Error # <<"Directory does not exist: ">> \o req.workingDir
    /\ res.result.Error # <<"Access to directory not allowed: ">> \o req.workingDir

\* cd with the override directory as its argument would succeed (a scoped
\* call leaves currentWorkingDir as it was when the call began)
CdAccepts == handleChangeDirectory(<<T_cd, req.workingDir>>).err.isNil

\* C25 (as claimed): a scoped call accepts its override directory exactly
\* when cd with that directory as its argument would succeed, for relative
\* paths and symbolic links as well.
C25_ScopedValidatesAsCd ==
    (Executed /\ Scoped /\ HasToken(req.command)) => (OverrideAccepted <=> CdAccepts)

\* a state in which the two differ: the override is a symbolic link under an
\* allowed prefix whose target is outside; the scoped call runs the command
\* there, cd to the same path is refused
C25_SymlinkOverride ==
    /\ Executed /\ Scoped
    /\ req.workingDir = P_tmp_l
    /\ allowedDirs = <<P_tmp>>
    /\ EvalSymlinks(P_tmp_l).path = P_o
    /\ res.proc # NoProc /\ res.proc.dir = P_tmp_l
    /\ ~CdAccepts

\* C26 (as claimed): after a successful cd the Stdout of the result is the
\* directory that was made the working directory, the string a following pwd
\* prints; WorkingDir is that directory, ExitCode is 0 and Error is empty.
C26_CdStdoutIsDirectory ==
    CdSucceeded =>
        /\ res.result.Stdout = currentWorkingDir
        /\ res.result.Stdout = handlePrintWorkingDirectory.result.Stdout
        /\ res.result.WorkingDir = currentWorkingDir
        /\ res.result.ExitCode = 0
        /\ res.result.Error = <<>>

\* C26 (amended): after a successful cd, with an argument or without one,
\* the Stdout of the result is the message "Changed directory to " followed
\* by the directory that was made the working directory; WorkingDir is that
\* directory, the string a following pwd prints; ExitCode is 0, Error is
\* empty and nothing is run.
C26_CdReportsNewDirectory ==
    CdSucceeded =>
        /\ res.result.Stdout = <<"Changed directory to ">> \o currentWorkingDir
        /\ res.result.WorkingDir = currentWorkingDir
        /\ res.result.WorkingDir = handlePrintWorkingDirectory.result.Stdout
        /\ res.result.ExitCode = 0
        /\ res.result.Error = <<>>
        /\ res.proc = NoProc

\* cd without an argument has gone home
C26_Witness ==
    /\ CdSucceeded
    /\ Len(Fields(req.command)) = 1
    /\ res.cwdBefore # osEnv.HOME
    /\ currentWorkingDir = osEnv.HOME
    /\ res.result.Stdout = <<"Changed directory to ">> \o P_h

\* cd with an argument
C26_WitnessArgument ==
    /\ CdSucceeded
    /\ Fields(req.command) = <<T_cd, T_s>>
    /\ res.result.Stdout = <<"Changed directory to ">> \o P_tmp_s

\* C27: Execute does not look at allowedCommands.  Called directly, it
\* treats a command whose first token is not allowed as any other: the binary
\* is looked up and run when it resolves, cd and pwd are served, and no
\* result says that the command is not allowed.  Only the command_exec
\* handler refuses such a command, without calling Execute.
C27_ExecuteIgnoresAllowlist ==
    /\ Returned("Execute") =>
          /\ res.executed
          /\ res.result.Error # <<"command not allowed: ">> \o req.command
          /\ Resolved =>
                /\ LookedUp = Resolution(ProgramName)
                /\ Resolution(ProgramName).error = <<>> => res.proc # NoProc
          /\ (HasToken(req.command) /\ IsFirstToken(req.command, T_pwd)
                /\ (Scoped => ValidOverride)) => res.err.isNil
    /\ (Returned("command_exec") /\ HasToken(req.command)
          /\ ~FirstTokenAllowed(req.command)) =>
          /\ ~res.executed
          /\ res.tool.Text = <<"command not allowed: ">> \o req.command

\* echo run by a direct call although only ls is allowed
C27_Witness ==
    /\ Returned("Execute") /\ Resolved
    /\ allowedCommands = <<T_ls>>
    /\ ProgramName = T_echo
    /\ ~IsCommandAllowed(req.command)
    /\ res.proc # NoProc
    /\ res.err.isNil

\* C28 (as claimed): when allowedDirs is not empty, currentWorkingDir passes
\* IsDirectoryAllowed in every reachable state, after a cd without argument
\* as well.
C28_WorkingDirAlwaysAllowed ==
    allowedDirs # <<>> => IsDirectoryAllowed(currentWorkingDir)

\* a state in which an ambient command has run outside the allowed
\* directories: cd without argument went to HOME, which is not allowed
C28_RunsOutsideAllowedDirs ==
    /\ Executed /\ ~Scoped
    /\ allowedDirs = <<P_tmp>>
    /\ res.proc # NoProc
    /\ res.proc.dir = osEnv.HOME
    /\ ~IsDirectoryAllowed(res.proc.dir)
    /\ res.err.isNil

\* C29 (as claimed): whenever Execute returns an error, the Error of the
\* result is the message of that error.
C29_ErrorMatchesReturnedError ==
    (Executed /\ ~res.err.isNil) => res.result.Error = res.err.msg

\* the failing paths on which the two do agree: every one but the scoped cd
C29_OtherPathsAgree ==
    (Executed /\ ~res.err.isNil /\ ~(Scoped /\ ValidOverride /\ IsFirstToken(req.command, T_cd)))
        => res.result.Error = res.err.msg

\* what caller q saw of the working directory
Observed(q) ==
    IF req[q].op = "GetCurrentWorkingDir" THEN {res[q].dir}
    ELSE {res[q].call.result.WorkingDir}
            \cup (IF res[q].call.proc # NoProc THEN {res[q].call.proc.dir} ELSE {})
            \cup (IF req[q].command = T_pwd THEN {res[q].call.result.Stdout} ELSE {})

\* C30 (as claimed, for the server package): what GetCurrentWorkingDir
\* returns, what an ambient pwd prints and reports, and the directory an
\* ambient command is run in, while an ExecuteCommandInDir of another caller
\* is under way, is the working directory of the session (here the one the
\* server started with, as no cd is sent), never the directory given to
\* ExecuteCommandInDir.
C30_OverrideNotObservable ==
    \A q \in Callers :
        (pc[q] = "returned" /\ req[q].op \in {"GetCurrentWorkingDir", "ExecuteCommand"}
            /\ res[q].during) =>
            Observed(q) = {initialWorkingDir(cfg, osEnv)}

\* a state in which an ambient command of one caller has run in the
\* directory given to the ExecuteCommandInDir of the other, whose child has
\* run and whose directory is not yet put back
C30_RunsInOverride ==
    \E p, q \in Callers :
        /\ pc[p] = "ran" /\ req[p].workingDir = P_tmp_s
        /\ res[p].start = P_tmp
        /\ pc[q] = "returned" /\ req[q].op = "ExecuteCommand"
        /\ res[q].call.proc # NoProc
        /\ res[q].call.proc.dir = P_tmp_s

\* the executor's scoped path: no step of a call that has a WorkingDir
\* writes currentWorkingDir, so there is nothing of it that another caller
\* could read
C30_ScopedCallWritesNothing ==
    [][\A p \in Callers :
          (pc'[p] # pc[p] /\ pc[p] # "idle" /\ req[p].workingDir # <<>>)
              => currentWorkingDir' = currentWorkingDir]_vars

\* a scoped call of one caller is past its checks while the other caller
\* has read the working directory of the session
C30_ScopedInProgress ==
    \E p, q \in Callers :
        /\ pc[p] = "checked" /\ req[p].workingDir = P_tmp_s
        /\ pc[q] = "read" /\ res[q].dir = P_tmp

=============================================================================
